---- MODULE Spec2Model ----
(***************************************************************************)
(* The per-node engine of the Stellar Consensus Protocol simulator         *)
(* (Node.py, QuorumSet.py, Value.py) as a state machine.  One action per   *)
(* public node operation the event driver invokes; every operation runs    *)
(* to completion in one step.                                              *)
(*                                                                         *)
(* Objects.  A Transaction is its hash (an integer).  A Value is the set   *)
(* of its transactions (Value.__eq__/hash go by the frozenset).  An        *)
(* SCPBallot is a mutable Python object: it is a reference                 *)
(* [by, k, value] into the heap `ballots`, which holds its counter, so     *)
(* that an in-place `counter += 1` is seen through every alias.            *)
(* Envelopes are records; Prepare/Commit/Externalize carry ballot          *)
(* references.                                                             *)
(***************************************************************************)
EXTENDS Integers, Sequences, FiniteSets, TLC

\* ------------------------------------------------------------------ bounds
MaxTx == 2        \* transactions ever created in the mempool (Spec)
MaxTime == 1      \* last instant of the simulated clock (Spec)
MaxBallots == 3   \* SCPBallot objects on the heap (Spec)
MaxRoundTime == 5 \* last instant of the runs that follow the nomination round

\* ------------------------------------------------------- program constants
MAX_SLOT_TXS == 200
THRESHOLD_DEFAULT == 55

Nodes == {"A", "B", "C"}

VARIABLES
    nodes,       \* name -> the Node object's fields
    quorum_set,  \* name -> [threshold, nodes, inner_sets] (QuorumSet of the node)
    mempool,     \* Mempool.transactions, a list
    ballots,     \* heap: ballot reference -> its current counter
    time,        \* Globals.simulation_time
    created,     \* transactions created so far (they are named 1, 2, ...)
    Gi1,         \* [slot, round, name] -> level of Gi([1, round, name])
    max_ballots, \* SCPBallot objects the run may hold on the heap
    probe        \* the last call of a predicate or helper, with its result

vars == <<nodes, quorum_set, mempool, ballots, time, created, Gi1, max_ballots, probe>>

\* ----------------------------------------------------------------- helpers
EmptyMap == [x \in {} |-> x]
Put(f, k, v) == [x \in DOMAIN f \cup {k} |-> IF x = k THEN v ELSE f[x]]
Del(f, k) == [x \in DOMAIN f \ {k} |-> f[x]]
Get(f, k, d) == IF k \in DOMAIN f THEN f[k] ELSE d
\* e, and then what F makes of it
Then(e, F(_)) == F(e)
Range(q) == {q[i] : i \in DOMAIN q}
InSeq(x, q) == \E i \in DOMAIN q : q[i] = x

RECURSIVE SeqRemove(_, _)
\* list.remove(x): drops the first occurrence
SeqRemove(q, x) ==
    IF q = <<>> THEN <<>>
    ELSE IF Head(q) = x THEN Tail(q) ELSE <<Head(q)>> \o SeqRemove(Tail(q), x)

RECURSIVE SeqFilterOut(_, _)
\* [y for y in q if y != x]
SeqFilterOut(q, x) ==
    IF q = <<>> THEN <<>>
    ELSE IF Head(q) = x THEN SeqFilterOut(Tail(q), x)
         ELSE <<Head(q)>> \o SeqFilterOut(Tail(q), x)

RECURSIVE Flatten(_)
\* QuorumSet._flatten over a list of lists
Flatten(qq) == IF qq = <<>> THEN <<>> ELSE Head(qq) \o Flatten(Tail(qq))

RECURSIVE Perms(_)
\* every order in which a Python set can be iterated
Perms(S) == IF S = {} THEN {<<>>}
            ELSE UNION {{<<x>> \o p : p \in Perms(S \ {x})} : x \in S}

\* ------------------------------------------------------------------- Value
\* a variant that keeps the last Value of the list only
Value_combine_last(vals) == vals[Len(vals)]

\* Value.combine: the union of the transactions of a list of Values
Value_combine(vals) == UNION Range(vals)

\* a variant that keeps the MAX_SLOT_TXS last of the sorted transactions
Capped_last(txs) ==
    IF Cardinality(txs) > MAX_SLOT_TXS
    THEN {t \in txs : Cardinality({u \in txs : u > t}) < MAX_SLOT_TXS}
    ELSE txs

\* sorted(txs, key=hash)[:MAX_SLOT_TXS] when there are more than MAX_SLOT_TXS
Capped(txs) ==
    IF Cardinality(txs) > MAX_SLOT_TXS
    THEN {t \in txs : Cardinality({u \in txs : u < t}) < MAX_SLOT_TXS}
    ELSE txs

\* ------------------------------------------------------------------ Ballot
\* SCPBallot.__eq__: same counter and same value
BallotEq(h, a, b) == h[a] = h[b] /\ a.value = b.value

\* --------------------------------------------------------------- QuorumSet
QS_size(q) == Len(q.nodes) + Len(Flatten(q.inner_sets))
\* ---- Python floats: IEEE-754 binary64, every result rounded to nearest even.
\* A positive float is [m, p]: m its 53 mantissa bits, first bit 1, and the
\* value is 0.m[1]m[2]...m[53] * 2^p.
MantissaBits == 53

RECURSIVE IntBits(_)
\* the binary digits of the integer i >= 0, most significant first
IntBits(i) == IF i = 0 THEN <<>> ELSE Append(IntBits(i \div 2), i % 2)

RECURSIVE BitsInt(_)
BitsInt(b) ==
    IF b = <<>> THEN 0 ELSE 2 * BitsInt(SubSeq(b, 1, Len(b) - 1)) + b[Len(b)]

RECURSIVE Pow2Mod(_, _)
\* 2^i modulo d, by repeated squaring
Pow2Mod(i, d) ==
    IF i = 0 THEN 1 % d
    ELSE LET h == Pow2Mod(i \div 2, d)
         IN (h * h * (IF i % 2 = 1 THEN 2 ELSE 1)) % d

\* the first n binary digits of r/d after the point (r < d), and what remains
FracBits(r, d, n) ==
    [bits |-> [i \in 1 .. n |-> (2 * ((r * Pow2Mod(i - 1, d)) % d)) \div d],
     rem |-> (r * Pow2Mod(n, d)) % d]

\* the zeros that follow the point in r/d, 0 < r < d
LeadingZeros(r, d) ==
    LET first == CHOOSE i \in 1 .. d : /\ FracBits(r, d, i).bits[i] = 1
                                       /\ \A j \in 1 .. (i - 1) : FracBits(r, d, j).bits[j] = 0
    IN first - 1

\* b + 1; one digit longer when every digit of b is 1
BitsInc(b) ==
    LET zeros == {i \in 1 .. Len(b) : b[i] = 0}
    IN IF zeros = {} THEN <<1>> \o [i \in 1 .. Len(b) |-> 0]
       ELSE LET j == CHOOSE i \in zeros : \A k \in zeros : k <= i
            IN [i \in 1 .. Len(b) |-> IF i < j THEN b[i] ELSE IF i = j THEN 1 ELSE 0]

\* the float nearest to 0.b[1]b[2]... * 2^p (b[1] = 1); sticky: digits that
\* are not all zero follow b
fl_round(b, p, sticky) ==
    IF Len(b) <= MantissaBits
    THEN [m |-> b \o [i \in 1 .. (MantissaBits - Len(b)) |-> 0], p |-> p]
    ELSE LET m == SubSeq(b, 1, MantissaBits)
             half == b[MantissaBits + 1] = 1
             more == sticky \/ \E i \in (MantissaBits + 2) .. Len(b) : b[i] = 1
             up == half /\ (more \/ m[MantissaBits] = 1)
             inc == BitsInc(m)
         IN IF ~up THEN [m |-> m, p |-> p]
            ELSE IF Len(inc) = MantissaBits THEN [m |-> inc, p |-> p]
            ELSE [m |-> SubSeq(inc, 1, MantissaBits), p |-> p + 1]

\* float(t) / float(d), for integers t > 0 and d > 0
fl_div(t, d) ==
    LET whole == IntBits(t \div d)
        r == t % d
    IN IF whole # <<>>
       THEN LET f == FracBits(r, d, MantissaBits + 2 - Len(whole))
            IN fl_round(whole \o f.bits, Len(whole), f.rem # 0)
       ELSE LET z == LeadingZeros(r, d)
                f == FracBits(r, d, z + MantissaBits + 2)
            IN fl_round(SubSeq(f.bits, z + 1, Len(f.bits)), 0 - z, f.rem # 0)

\* the digits of an integer are handled in limbs of LimbBits digits
LimbBits == 16
Limbs(b) == (Len(b) + LimbBits - 1) \div LimbBits
\* limb j of b, counted from the least significant end
Limb(b, j) ==
    LET hi == Len(b) - (j - 1) * LimbBits
        lo == IF hi - LimbBits + 1 < 1 THEN 1 ELSE hi - LimbBits + 1
    IN SubSeq(b, lo, hi)

RECURSIVE MulCarry(_, _, _)
\* what limbs 1 .. j of b, times k, carry into limb j + 1
MulCarry(b, k, j) ==
    IF j = 0 THEN 0
    ELSE LET v == BitsInt(Limb(b, j)) * k + MulCarry(b, k, j - 1)
         IN v \div (2 ^ Len(Limb(b, j)))

RECURSIVE MulLimbs(_, _, _)
\* the digits of limbs j .. Limbs(b) of b * k, the carry out in front
MulLimbs(b, k, j) ==
    IF j > Limbs(b) THEN IntBits(MulCarry(b, k, Limbs(b)))
    ELSE LET w == Len(Limb(b, j))
             v == (BitsInt(Limb(b, j)) * k + MulCarry(b, k, j - 1)) % (2 ^ w)
             d == IntBits(v)
         IN MulLimbs(b, k, j + 1) \o [i \in 1 .. (w - Len(d)) |-> 0] \o d

\* the digits of b * k, for an integer 0 < k < 2^14

\* float(k) * x, for an integer k > 0
fl_mul(k, x) ==
    LET b == MulLimbs(x.m, k, 1)
    IN fl_round(b, x.p + Len(b) - MantissaBits, FALSE)

\* math.ceil(x) of a float x > 0 that is below 2^53
math_ceil(x) ==
    IF x.p <= 0 THEN 1
    ELSE BitsInt(SubSeq(x.m, 1, x.p))
         + (IF \E i \in (x.p + 1) .. MantissaBits : x.m[i] = 1 THEN 1 ELSE 0)

\* math.ceil(sz * (t / 100.0)); the threshold t is an int percentage, as every
\* quorum set of the model has it (0 * x is 0.0, whose ceiling is 0)
minimum_quorum(sz, t) ==
    IF sz = 0 THEN 0 ELSE math_ceil(fl_mul(sz, fl_div(t, 100)))

\* minimum_quorum, computed once for the small quorum sets
SmallQuorum ==
    [x \in (0 .. 8) \X {THRESHOLD_DEFAULT, 67} |-> minimum_quorum(x[1], x[2])] @@ <<>>

QS_minimum_quorum(q) ==
    LET x == <<QS_size(q), q.threshold>>
    IN IF x \in DOMAIN SmallQuorum THEN SmallQuorum[x] ELSE minimum_quorum(x[1], x[2])
\* QuorumSet.weight as a fraction <<count, total_slices>>
QS_weight(q, v) ==
    <<Cardinality({i \in DOMAIN q.nodes : q.nodes[i] = v})
        + Cardinality({i \in DOMAIN q.inner_sets : InSeq(v, q.inner_sets[i])}),
      Len(q.nodes) + Len(q.inner_sets)>>
\* the peers QuorumSet.retrieve_random_peer draws from
QS_peers(q, self) == (Range(q.nodes) \cup Range(Flatten(q.inner_sets))) \ {self}
\* validators and flattened inner sets, duplicates removed
QS_members(q) == Range(q.nodes) \cup Range(Flatten(q.inner_sets))

\* ------------------------------------------------------------ Node, fresh
NewNode ==
    [ slot |-> 1,
      ledger |-> <<>>,
      tx_queue |-> <<>>,
      nomination_state |-> [voted |-> <<>>, accepted |-> <<>>, confirmed |-> <<>>],
      statement_counter |-> EmptyMap,
      broadcast_flags |-> <<>>,
      received_broadcast_msgs |-> EmptyMap,
      priority_list |-> {},
      finalised_transactions |-> {},
      nomination_round |-> 1,
      last_nomination_start_time |-> 0,
      balloting_state |-> [voted |-> EmptyMap, accepted |-> EmptyMap,
                           confirmed |-> EmptyMap, aborted |-> EmptyMap],
      ballot_statement_counter |-> EmptyMap,
      ballot_prepare_broadcast_flags |-> {},
      received_prepare_broadcast_msgs |-> EmptyMap,
      prepared_ballots |-> EmptyMap,
      commit_ballot_state |-> [voted |-> EmptyMap, accepted |-> EmptyMap,
                               confirmed |-> EmptyMap],
      commit_ballot_statement_counter |-> EmptyMap,
      commit_ballot_broadcast_flags |-> {},
      received_commit_ballot_broadcast_msgs |-> EmptyMap,
      externalize_broadcast_flags |-> {},
      externalized_slot_counter |-> {},
      peer_externalised_statements |-> EmptyMap,
      made |-> 0,
      \* history of the phase collections (not a field of the program): the
      \* values that have been in voted / accepted since the last purge
      was |-> [nv |-> {}, na |-> {}, pv |-> {}, pa |-> {}, cv |-> {}, ca |-> {}] ]

\* the history: a value is added to was.xv / was.xa when it is in the voted /
\* accepted collection of phase x (n: nomination, p: prepare, c: commit)
Note(s) ==
    [s EXCEPT !.was =
        [nv |-> @.nv \cup Range(s.nomination_state.voted),
         na |-> @.na \cup Range(s.nomination_state.accepted),
         pv |-> @.pv \cup DOMAIN s.balloting_state.voted,
         pa |-> @.pa \cup DOMAIN s.balloting_state.accepted,
         cv |-> @.cv \cup DOMAIN s.commit_ballot_state.voted,
         ca |-> @.ca \cup DOMAIN s.commit_ballot_state.accepted]]

\* ------------------------------------------------- ledger and finalisation
\* Ledger.add_slot(slot, externalize_msg)
Ledger_add_slot(ledger, slot, msg) == Put(ledger, slot, msg)

\* a variant that finds no transaction in the ledger
get_finalized_transaction_ids_none(s) == {}

\* Node.get_finalized_transaction_ids: hashes of every tx in the ledger
get_finalized_transaction_ids(s) ==
    UNION {s.ledger[i].ballot.value : i \in DOMAIN s.ledger}

\* Node.is_transaction_in_externalized_slots
is_transaction_in_externalized_slots(s, t) ==
    \E e \in s.externalized_slot_counter : t \in e.ballot.value

\* Node.is_message_externalized: some tx of a voted/accepted value of the
\* Nominate is in an externalised slot of this node
is_message_externalized(s, m) ==
    \E v \in Range(m.voted) \cup Range(m.accepted) :
        \E t \in v : is_transaction_in_externalized_slots(s, t)

\* Node.is_finalized(value): shares a transaction with a ledger value
is_finalized(s, value) ==
    \E i \in DOMAIN s.ledger : s.ledger[i].ballot.value \cap value # {}

\* Node.is_ballot_finalized
is_ballot_finalized(s, b) == is_finalized(s, b.value)

\* Node.check_if_finalised(ballot): an externalised ballot equal to it
check_if_finalised(s, h, b) ==
    \E e \in s.externalized_slot_counter : BallotEq(h, e.ballot, b)

\* Node.collect_finalised_transactions
collect_finalised_transactions(s) ==
    IF s.slot = 1 THEN s
    ELSE [s EXCEPT !.finalised_transactions =
            @ \cup UNION {e.ballot.value : e \in s.externalized_slot_counter}]

\* Node.clean_prepare_and_commit_state: drop entries whose value is
\* entirely in finalised_transactions
clean_prepare_and_commit_state(s) ==
    LET fin(v) == v \subseteq s.finalised_transactions
        keepB(m) == [v \in {x \in DOMAIN m : ~fin(x)} |-> m[v]]
    IN [s EXCEPT
          !.balloting_state = [p \in DOMAIN @ |-> keepB(@[p])],
          !.ballot_statement_counter = keepB(@),
          !.prepared_ballots = keepB(@),
          !.commit_ballot_state = [p \in DOMAIN @ |-> keepB(@[p])],
          !.commit_ballot_statement_counter = keepB(@),
          !.was = [@ EXCEPT !.pv = {x \in @ : ~fin(x)}, !.pa = {x \in @ : ~fin(x)},
                            !.cv = {x \in @ : ~fin(x)}, !.ca = {x \in @ : ~fin(x)}]]

\* ------------------------------------------------- priority and the round
\* Gi([1, round, name]) < 2^256 * weight, weight = w[1] / w[2]
HashBelow(g, w) == g * w[2] < w[1] * 6

\* Node.get_priority_list: self, and every member whose hash is below its
\* weight, are added to priority_list
get_priority_list(s, self, env) ==
    LET nb == {self} \cup
              {v \in QS_members(env.q) :
                  HashBelow(env.Gi1[<<s.slot, s.nomination_round, v>>],
                            QS_weight(env.q, v))}
    IN [s EXCEPT !.priority_list = @ \cup nb]

\* Node.check_update_nomination_round
check_update_nomination_round(s, self, env) ==
    IF env.time > s.last_nomination_start_time + s.nomination_round
    THEN get_priority_list([s EXCEPT !.nomination_round = @ + 1], self, env)
    ELSE s

\* Node.get_highest_priority_neighbor: its result is not used by the
\* caller; what remains is the round update and the priority list
get_highest_priority_neighbor(s, self, env) ==
    get_priority_list(check_update_nomination_round(s, self, env), self, env)

\* ------------------------------------------------------------- nomination
\* SCPNominate(voted, accepted, confirmed): the lists as they are now
SCPNominate(ns) ==
    [voted |-> ns.voted, accepted |-> ns.accepted, confirmed |-> ns.confirmed]

\* SCPNominate.parse_message_state: (voted value or None, accepted value
\* or None); None is the empty list
parse_message_state(m) ==
    <<IF m.voted = <<>> THEN <<>> ELSE <<m.voted[1]>>,
      IF m.accepted = <<>> THEN <<>> ELSE <<m.accepted[1]>>>>

\* the pruning loop of prepare_nomination_msg / process_received_message:
\* every value loses the transactions in fin, empty values are dropped
RECURSIVE PruneList(_, _)
PruneList(q, fin) ==
    IF q = <<>> THEN <<>>
    ELSE (IF Head(q) \ fin # {} THEN <<Head(q) \ fin>> ELSE <<>>)
         \o PruneList(Tail(q), fin)

\* the history of the nomination lists follows the pruning of their values
PruneHistory(s, fin) ==
    [s EXCEPT !.was = [@ EXCEPT !.nv = {x \ fin : x \in @} \ {{}},
                                !.na = {x \ fin : x \in @} \ {{}}]]

PruneNomination(ns, fin) ==
    [voted |-> PruneList(ns.voted, fin),
     accepted |-> PruneList(ns.accepted, fin),
     confirmed |-> PruneList(ns.confirmed, fin)]

\* Node.update_local_nomination_broadcast
update_local_nomination_broadcast(s) ==
    IF s.nomination_state.voted = <<>> /\ s.nomination_state.accepted = <<>>
    THEN s
    ELSE [s EXCEPT !.broadcast_flags = <<SCPNominate(s.nomination_state)>>]

\* Node.process_received_message(message), message = <<voted, accepted>>
process_received_message(s, message) ==
    LET fin == get_finalized_transaction_ids(s)
        ns0 == PruneNomination(s.nomination_state, fin)
        fv == IF message[1] = <<>> THEN {} ELSE message[1][1] \ fin
        ns1 == IF fv # {}
               THEN [ns0 EXCEPT !.voted =
                        <<Capped(Value_combine(ns0.voted \o <<fv>>))>>]
               ELSE ns0
        fa == IF message[2] = <<>> THEN {} ELSE message[2][1] \ fin
        ns2 == IF fa # {}
               THEN [ns1 EXCEPT !.accepted =
                        <<Capped(Value_combine(ns1.accepted \o <<fa>>))>>]
               ELSE ns1
    IN update_local_nomination_broadcast(
           Note([PruneHistory(s, fin) EXCEPT !.nomination_state = ns2]))

\* Node.is_value_already_present
is_value_already_present(s, v) ==
    \/ InSeq(v, s.nomination_state.voted)
    \/ InSeq(v, s.nomination_state.accepted)
    \/ InSeq(v, s.nomination_state.confirmed)

\* Node.update_statement_count(other_node, message)
update_statement_count(s, other, message) ==
    LET blank == [voted |-> {}, accepted |-> {}]
        c0 == s.statement_counter
        c1 == IF message[2] = <<>> THEN c0
              ELSE LET h == message[2][1]
                       e == Get(c0, h, blank)
                   IN Put(c0, h, [e EXCEPT !.accepted = @ \cup {other}])
        c2 == IF message[1] = <<>> THEN c1
              ELSE LET h == message[1][1]
                       e == Get(c1, h, blank)
                   IN Put(c1, h, [e EXCEPT !.voted = @ \cup {other}])
    IN [s EXCEPT !.statement_counter = c2]

\* a variant that asks for more signers than the minimum quorum
check_Quorum_threshold_strict(s, self, q, val) ==
    /\ InSeq(val, s.nomination_state.voted) \/ InSeq(val, s.nomination_state.accepted)
    /\ LET unique == QS_members(q) \cup {self}
           entry == Get(s.statement_counter, val, [voted |-> {}, accepted |-> {}])
           signed == Cardinality({p \in unique :
                        p = self \/ p \in entry.voted \/ p \in entry.accepted})
       IN signed > QS_minimum_quorum(q)

\* Node.check_Quorum_threshold(val)
check_Quorum_threshold(s, self, q, val) ==
    /\ InSeq(val, s.nomination_state.voted) \/ InSeq(val, s.nomination_state.accepted)
    /\ LET unique == QS_members(q) \cup {self}
           entry == Get(s.statement_counter, val, [voted |-> {}, accepted |-> {}])
           signed == Cardinality({p \in unique :
                        p = self \/ p \in entry.voted \/ p \in entry.accepted})
       IN signed >= QS_minimum_quorum(q)

\* a variant that moves a voted value straight to confirmed
update_nomination_state_direct(s, val, field) ==
    IF s.nomination_state[field] = <<>> THEN s
    ELSE [s EXCEPT !.nomination_state[field] = SeqRemove(@, val),
                   !.nomination_state.confirmed = Append(@, val)]

\* Node.update_nomination_state(val, field)
update_nomination_state(s, val, field) ==
    LET ns == s.nomination_state IN
    IF field = "voted" THEN
        IF ns.voted = <<>> THEN s
        ELSE IF InSeq(val, ns.accepted)
        THEN [s EXCEPT !.nomination_state.voted = SeqRemove(@, val)]
        ELSE [s EXCEPT !.nomination_state.voted = SeqRemove(@, val),
                       !.nomination_state.accepted = Append(@, val)]
    ELSE
        IF ns.accepted = <<>> THEN s
        ELSE IF InSeq(val, ns.confirmed)
        THEN [s EXCEPT !.nomination_state.accepted = SeqRemove(@, val)]
        ELSE [s EXCEPT !.nomination_state.accepted = SeqRemove(@, val),
                       !.nomination_state.confirmed = Append(@, val)]

\* the enqueue loop of prepare_nomination_msg: a transaction is appended
\* where the loop meets it first, unless finalised or queued already
Enqueue(queue, all_tx, fin) ==
    LET new == SelectSeq([i \in DOMAIN all_tx |-> i],
                   LAMBDA i : /\ all_tx[i] \notin fin
                              /\ ~InSeq(all_tx[i], queue)
                              /\ \A j \in 1 .. (i - 1) : all_tx[j] # all_tx[i])
    IN queue \o [k \in DOMAIN new |-> all_tx[new[k]]]

Min(a, b) == IF a < b THEN a ELSE b

\* Node.prepare_nomination_msg: [s |-> the node after, msg |-> the message
\* or None]
prepare_nomination_msg(s, pool) ==
    LET Publish(s5) ==
           [s |-> Note([s5 EXCEPT !.broadcast_flags = <<SCPNominate(s5.nomination_state)>>]),
            msg |-> <<SCPNominate(s5.nomination_state)>>]
        Vote(s4, new_value) ==
           IF new_value = {} THEN [s |-> s4, msg |-> <<>>]
           ELSE IF is_value_already_present(s4, new_value) THEN [s |-> s4, msg |-> <<>>]
           ELSE Publish([s4 EXCEPT !.nomination_state.voted =
                           IF @ # <<>>
                           THEN <<Capped(Value_combine(@ \o <<new_value>>))>>
                           ELSE <<new_value>>])
        Take(s3, k) ==
           Vote([s3 EXCEPT !.tx_queue = SubSeq(@, k + 1, Len(@))],
                Range(SubSeq(s3.tx_queue, 1, k)))
        Prune(s2) ==
           [PruneHistory(s2, s2.finalised_transactions) EXCEPT
               !.nomination_state = PruneNomination(@, s2.finalised_transactions)]
    IN Then(Prune(clean_prepare_and_commit_state(collect_finalised_transactions(
                [s EXCEPT !.tx_queue = Enqueue(@, pool, s.finalised_transactions)]))),
            LAMBDA s3 : Take(s3, Min(MAX_SLOT_TXS, Len(s3.tx_queue))))

\* Node.nominate
nominate(s, self, env) ==
    LET Promote(s2, field, vals) ==
           IF vals # <<>> /\ check_Quorum_threshold(s2, self, env.q, vals[1])
           THEN Note(update_nomination_state(s2, vals[1], field))
           ELSE s2
        Check(r) ==
           IF r.msg = <<>> THEN r.s
           ELSE Promote(Promote(r.s, "voted", r.msg[1].voted),
                        "accepted", r.msg[1].accepted)
        Prepare(s1) ==
           IF self \notin s1.priority_list THEN s1
           ELSE Check(prepare_nomination_msg(s1, env.mempool))
    IN Prepare(get_priority_list(check_update_nomination_round(s, self, env), self, env))

\* ---------------------------------------------------------- prepare phase
BlankCtr == [voted |-> {}, accepted |-> {}, confirmed |-> {}, aborted |-> {}]

\* received_<phase>_broadcast_msgs: peer -> the set of messages seen.  The
\* receive operations read a missing entry, and an entry a reset_*_phase has
\* rewritten as a list, as a new empty set (isinstance(existing, set)), and
\* nothing else reads them: such an entry is not kept in the map.
Seen(seen_map, peer) == Get(seen_map, peer, {})

\* SCPPrepare(ballot, aCounter, cCounter, hCounter)
SCPPrepare(b, a, c, hc) == [ballot |-> b, aCounter |-> a, cCounter |-> c, hCounter |-> hc]
\* SCPCommit(ballot, preparedCounter)
SCPCommit(b, pc) == [ballot |-> b, preparedCounter |-> pc]
\* SCPExternalize(ballot, hCounter, timestamp)
SCPExternalize(b, hc, ts) == [ballot |-> b, hCounter |-> hc, timestamp |-> ts]

\* Node.reset_nomination_state
reset_nomination_state(s) ==
    [s EXCEPT !.nomination_state = [voted |-> <<>>, accepted |-> <<>>, confirmed |-> <<>>],
              !.nomination_round = 1,
              !.was = [@ EXCEPT !.nv = {}, !.na = {}]]

\* Node.reset_commit_phase_state(finalized_ballot): everything of the commit
\* phase whose value shares a transaction with the finalised value
reset_commit_phase_state(s, fb) ==
    LET hit(v) == v \cap fb.value # {}
        keepV(m) == [v \in {x \in DOMAIN m : ~hit(x)} |-> m[v]]
    IN [s EXCEPT
          !.commit_ballot_statement_counter = keepV(@),
          !.commit_ballot_state = [p \in DOMAIN @ |-> keepV(@[p])],
          !.commit_ballot_broadcast_flags = {m \in @ : ~hit(m.ballot.value)},
          !.received_commit_ballot_broadcast_msgs = EmptyMap,
          !.was = [@ EXCEPT !.cv = {x \in @ : ~hit(x)}, !.ca = {x \in @ : ~hit(x)}]]

\* Node.reset_prepare_ballot_phase(finalized_ballot): everything of the
\* prepare phase whose value hash is the finalised value's hash
reset_prepare_ballot_phase(s, fb) ==
    LET keepV(m) == [v \in DOMAIN m \ {fb.value} |-> m[v]]
    IN [s EXCEPT
          !.balloting_state = [p \in DOMAIN @ |-> keepV(@[p])],
          !.ballot_statement_counter = keepV(@),
          !.prepared_ballots = keepV(@),
          !.ballot_prepare_broadcast_flags = {m \in @ : m.ballot.value # fb.value},
          !.received_prepare_broadcast_msgs = EmptyMap,
          !.was = [@ EXCEPT !.pv = @ \ {fb.value}, !.pa = @ \ {fb.value}]]

\* Node.replace_prepare_broadcast_flag
replace_prepare_broadcast_flag(s, h, new_msg) ==
    [s EXCEPT !.ballot_prepare_broadcast_flags =
        {m \in @ : ~BallotEq(h, m.ballot, new_msg.ballot)} \cup {new_msg}]

\* Node.prepare_ballot_msg with confirmed_val the value retrieve_confirmed_value
\* drew; [s |-> node after, h |-> heap after]
prepare_ballot_msg(s, self, h, confirmed_val) ==
    IF s.nomination_state.confirmed = <<>> THEN [s |-> s, h |-> h]
    ELSE IF is_finalized(s, confirmed_val)
    THEN [s |-> [s EXCEPT !.nomination_state =
                    [confirmed |-> SeqFilterOut(@.confirmed, confirmed_val),
                     voted |-> SeqFilterOut(@.voted, confirmed_val),
                     accepted |-> SeqFilterOut(@.accepted, confirmed_val)]],
          h |-> h]
    ELSE IF confirmed_val \in DOMAIN s.balloting_state.aborted THEN [s |-> s, h |-> h]
    ELSE
      LET again == confirmed_val \in DOMAIN s.balloting_state.voted
          old == s.balloting_state.voted[confirmed_val]
          new_counter == IF again THEN h[old] + 1 ELSE 1
          ballot == [by |-> self, k |-> s.made + 1, value |-> confirmed_val]
          \* the voted ballot object is incremented in place, the new one is made
          h1 == Put(IF again THEN Put(h, old, h[old] + 1) ELSE h, ballot, new_counter)
          s1 == [s EXCEPT !.made = @ + 1]
          seed(x) == IF confirmed_val \in DOMAIN x.ballot_statement_counter THEN x
                     ELSE [x EXCEPT !.ballot_statement_counter =
                             Put(@, confirmed_val,
                                 [BlankCtr EXCEPT !.voted = {self}, !.accepted = {self}])]
      IN IF check_if_finalised(s1, h1, ballot) THEN [s |-> s1, h |-> h1]
         ELSE IF confirmed_val \in DOMAIN s1.prepared_ballots
         THEN LET c == s1.prepared_ballots[confirmed_val]
                  prepare_msg == SCPPrepare(ballot, c.aCounter, c.cCounter, c.hCounter)
                  s2 == replace_prepare_broadcast_flag(s1, h1, prepare_msg)
                  s3 == [s2 EXCEPT !.prepared_ballots = Put(@, confirmed_val, prepare_msg)]
              IN [s |-> seed(s3), h |-> h1]
         ELSE LET prepare_msg == SCPPrepare(ballot, 0, 0, 0)
                  s2 == replace_prepare_broadcast_flag(s1, h1, prepare_msg)
                  s3 == [s2 EXCEPT !.prepared_ballots = Put(@, confirmed_val, prepare_msg),
                                   !.balloting_state.voted = Put(@, confirmed_val, ballot)]
              IN [s |-> seed(s3), h |-> h1]

\* a variant that aborts the voted ballots and leaves the accepted ones
abort_ballots_voted(s, h, rb) ==
    LET lowV == {v \in DOMAIN s.balloting_state.voted :
                    h[s.balloting_state.voted[v]] < h[rb] /\ v # rb.value}
    IN [s EXCEPT !.balloting_state.aborted =
                     [v \in DOMAIN @ \cup lowV |->
                         IF v \in lowV THEN s.balloting_state.voted[v] ELSE @[v]],
                 !.balloting_state.voted = [v \in DOMAIN @ \ lowV |-> @[v]]]

\* Node.abort_ballots(received_ballot)
abort_ballots(s, h, rb) ==
    LET lowV == {v \in DOMAIN s.balloting_state.voted :
                    h[s.balloting_state.voted[v]] < h[rb] /\ v # rb.value}
        ab1 == [v \in DOMAIN s.balloting_state.aborted \cup lowV |->
                   IF v \in lowV THEN s.balloting_state.voted[v]
                   ELSE s.balloting_state.aborted[v]]
        lowA == {v \in DOMAIN s.balloting_state.accepted :
                    h[s.balloting_state.accepted[v]] < h[rb] /\ v # rb.value}
        ab2 == [v \in DOMAIN ab1 \cup lowA |->
                   IF v \in lowA THEN s.balloting_state.accepted[v] ELSE ab1[v]]
    IN [s EXCEPT !.balloting_state =
          [voted |-> [v \in DOMAIN @.voted \ lowV |-> @.voted[v]],
           accepted |-> [v \in DOMAIN @.accepted \ lowA |-> @.accepted[v]],
           confirmed |-> @.confirmed,
           aborted |-> ab2]]

\* the sender recorded as voted and accepted for the received value
RecordSender(s, val, sender) ==
    LET e == Get(s.ballot_statement_counter, val, BlankCtr)
    IN [s EXCEPT !.ballot_statement_counter =
          Put(@, val, [e EXCEPT !.voted = @ \cup {sender}, !.accepted = @ \cup {sender}])]

\* Node.process_prepare_ballot_message(message, sender)
process_prepare_ballot_message(s, h, message, sender) ==
    LET rb == message.ballot
        val == rb.value
        voted == s.balloting_state.voted
    IN IF val \in DOMAIN voted
       THEN IF h[rb] > h[voted[val]]
            THEN RecordSender([s EXCEPT !.balloting_state.voted = Put(@, val, rb)],
                              val, sender)
            ELSE IF h[rb] < h[voted[val]] THEN RecordSender(s, val, sender)
            ELSE s
       ELSE IF \E v \in DOMAIN voted : h[rb] > h[voted[v]]
            THEN LET s1 == abort_ballots(s, h, rb)
                 IN RecordSender([s1 EXCEPT !.balloting_state.voted = Put(@, val, rb)],
                                 val, sender)
            ELSE LET s1 == [s EXCEPT !.balloting_state.aborted = Put(@, val, rb)]
                     had == val \in DOMAIN s.ballot_statement_counter
                     e == Get(s.ballot_statement_counter, val, BlankCtr)
                 IN [s1 EXCEPT !.ballot_statement_counter =
                       Put(@, val, [e EXCEPT !.voted = IF had THEN @ \ {sender} ELSE @,
                                             !.aborted = @ \cup {sender}])]

\* Node.check_Prepare_Quorum_threshold(ballot)
check_Prepare_Quorum_threshold(s, self, q, b) ==
    /\ b.value \in DOMAIN s.balloting_state.voted
         \/ b.value \in DOMAIN s.balloting_state.accepted
    /\ LET all_quorum == q.nodes \o Flatten(q.inner_sets)
           entry == Get(s.ballot_statement_counter, b.value, BlankCtr)
           signed == 1 + Cardinality({i \in DOMAIN all_quorum :
                        all_quorum[i] # self
                        /\ (all_quorum[i] \in entry.voted \/ all_quorum[i] \in entry.accepted)})
       IN signed >= QS_minimum_quorum(q)

\* Node.update_prepare_balloting_state(ballot, field)
update_prepare_balloting_state(s, b, field) ==
    LET bs == s.balloting_state
        v == b.value
    IN IF field = "voted"
       THEN IF DOMAIN bs.voted = {} \/ v \in DOMAIN bs.accepted \/ v \notin DOMAIN bs.voted
            THEN s
            ELSE [s EXCEPT !.balloting_state.accepted = Put(@, v, bs.voted[v]),
                           !.balloting_state.voted = Del(@, v)]
       ELSE IF DOMAIN bs.accepted = {} \/ v \in DOMAIN bs.confirmed
                 \/ v \notin DOMAIN bs.accepted
            THEN s
            ELSE [s EXCEPT !.balloting_state.confirmed = Put(@, v, bs.accepted[v]),
                           !.balloting_state.accepted = Del(@, v)]

\* Node.is_v_blocking(other_ballot)
is_v_blocking(s, q, b) ==
    LET n == Cardinality(QS_members(q))
        entry == Get(s.ballot_statement_counter, b.value, BlankCtr)
    IN Cardinality(entry.voted \cup entry.accepted) > n - QS_minimum_quorum(q)

\* the body of the loop of receive_prepare_message for one unseen message
receive_prepare_one(s, self, q, h, msg, peer) ==
    LET b == msg.ballot
        Quorum(s1) ==
           IF b.value \in DOMAIN s1.balloting_state.voted
              /\ check_Prepare_Quorum_threshold(s1, self, q, b)
           THEN Note(update_prepare_balloting_state(s1, b, "voted"))
           ELSE IF b.value \in DOMAIN s1.balloting_state.accepted
                   /\ check_Prepare_Quorum_threshold(s1, self, q, b)
           THEN Note(update_prepare_balloting_state(s1, b, "accepted"))
           ELSE s1
        Vote(s3) ==
           IF b.value \notin DOMAIN s3.balloting_state.voted
           THEN Note([s3 EXCEPT !.balloting_state.voted = Put(@, b.value, b)])
           ELSE s3
        Blocking(s2) ==
           IF (DOMAIN s2.balloting_state.voted \ {b.value}) # {} /\ is_v_blocking(s2, q, b)
           THEN Vote(abort_ballots(s2, h, b))
           ELSE s2
    IN IF check_if_finalised(s, h, msg.ballot) THEN s
       ELSE Blocking(Quorum(Note(process_prepare_ballot_message(s, h, msg, peer))))

RECURSIVE receive_prepare_loop(_, _, _, _, _, _)
receive_prepare_loop(s, self, q, h, unseen, peer) ==
    IF unseen = <<>> THEN s
    ELSE LET msg == Head(unseen)
             s1 == [s EXCEPT !.received_prepare_broadcast_msgs =
                                 Put(@, peer, Seen(@, peer) \cup {msg})]
         IN receive_prepare_loop(receive_prepare_one(s1, self, q, h, msg, peer),
                                 self, q, h, Tail(unseen), peer)

\* the messages of peer_flags the node has not seen from peer
Unseen(seen_map, peer, peer_flags) == peer_flags \ Seen(seen_map, peer)

\* Node.receive_prepare_message with the peer retrieve_random_peer drew and
\* the order in which the unseen messages are iterated
receive_prepare_message(s, self, q, h, peer, peer_flags, order) ==
    receive_prepare_loop(s, self, q, h, order, peer)

\* ----------------------------------------------------------- commit phase
\* Node.prepare_SCPCommit_msg with vh the key retrieve_confirmed_prepare_ballot drew
prepare_SCPCommit_msg(s, self, h, vh) ==
    IF DOMAIN s.balloting_state.confirmed = {} THEN s
    ELSE LET cb == s.balloting_state.confirmed[vh] IN
         IF is_ballot_finalized(s, cb)
         THEN reset_commit_phase_state(reset_prepare_ballot_phase(s, cb), cb)
         ELSE [s EXCEPT
                 !.commit_ballot_broadcast_flags = @ \cup {SCPCommit(cb, h[cb])},
                 !.commit_ballot_state.voted = Put(@, cb.value, cb),
                 !.commit_ballot_statement_counter =
                     IF cb.value \in DOMAIN @ THEN @
                     ELSE Put(@, cb.value, [BlankCtr EXCEPT !.voted = {self}])]

\* Node.simple_process_commit_ballot_message(message, sender)
simple_process_commit_ballot_message(s, message, sender) ==
    LET received == message.ballot
        v == received.value
        e == Get(s.commit_ballot_statement_counter, v, BlankCtr)
    IN [s EXCEPT
          !.commit_ballot_state.voted = IF v \in DOMAIN @ THEN @ ELSE Put(@, v, received),
          !.commit_ballot_statement_counter =
              Put(@, v, [e EXCEPT !.voted = @ \cup {sender}])]

\* Node.check_Commit_Quorum_threshold(ballot)
check_Commit_Quorum_threshold(s, self, q, b) ==
    /\ b.value \in DOMAIN s.commit_ballot_state.voted
         \/ b.value \in DOMAIN s.commit_ballot_state.accepted
    /\ LET unique_peers == QS_members(q) \cup {self}
           entry == Get(s.commit_ballot_statement_counter, b.value, BlankCtr)
           signed == Cardinality({p \in unique_peers :
                        p = self \/ p \in entry.voted \/ p \in entry.accepted})
       IN signed >= QS_minimum_quorum(q)

\* Node.update_commit_balloting_state(ballot, field)
update_commit_balloting_state(s, b, field) ==
    LET cs == s.commit_ballot_state
        v == b.value
    IN IF field = "voted"
       THEN IF DOMAIN cs.voted = {} \/ v \in DOMAIN cs.accepted \/ v \notin DOMAIN cs.voted
            THEN s
            ELSE [s EXCEPT !.commit_ballot_state.accepted = Put(@, v, cs.voted[v]),
                           !.commit_ballot_state.voted = Del(@, v)]
       ELSE IF DOMAIN cs.accepted = {} \/ v \in DOMAIN cs.confirmed
                 \/ v \notin DOMAIN cs.accepted
            THEN s
            ELSE [s EXCEPT !.commit_ballot_state.confirmed = Put(@, v, cs.accepted[v]),
                           !.commit_ballot_state.accepted = Del(@, v)]

\* Node._is_v_blocking_commit(ballot)
is_v_blocking_commit(s, q, b) ==
    LET unique_peers == QS_members(q)
        entry == Get(s.commit_ballot_statement_counter, b.value, BlankCtr)
        signed == Cardinality({p \in unique_peers : p \in entry.voted \/ p \in entry.accepted})
    IN signed > Cardinality(unique_peers) - QS_minimum_quorum(q)

\* ------------------------------------------------------ externalize phase
\* remove_txs_from_mempool without its second loop: only the transactions of
\* finalised_transactions leave the mempool
remove_txs_from_mempool_finalised(s, pool, value) ==
    LET s1 == collect_finalised_transactions(s)
    IN [s |-> s1, pool |-> SelectSeq(pool, LAMBDA t : t \notin s1.finalised_transactions)]

\* Node.remove_txs_from_mempool(value): [s |-> node, pool |-> mempool]; the
\* transactions of finalised_transactions are removed, then those of value
remove_txs_from_mempool(s, pool, value) ==
    LET s1 == collect_finalised_transactions(s)
        \* mempool.transactions.remove(tx) in try / except ValueError takes
        \* the first occurrence of tx out and passes over an absent one: the
        \* two loops take out as many occurrences of tx as sets hold it
        taken(tx) == (IF tx \in s1.finalised_transactions THEN 1 ELSE 0)
                     + (IF tx \in value THEN 1 ELSE 0)
        stay == {i \in 1 .. Len(pool) :
                   Cardinality({j \in 1 .. i - 1 : pool[j] = pool[i]}) >= taken(pool[i])}
    IN [s |-> s1,
        pool |-> [k \in 1 .. Cardinality(stay) |->
                    pool[CHOOSE i \in stay : Cardinality({j \in stay : j <= i}) = k]]]

\* what prepare_Externalize_msg and process_externalize_msg draw: the key pv
\* when it is a key of the map, any key otherwise
Drawn(m, pv) == IF pv \in DOMAIN m THEN pv ELSE CHOOSE k \in DOMAIN m : TRUE

\* a variant that externalises but keeps the priority list of the closed slot
prepare_Externalize_msg_kept(s, h, now, pool, pv) ==
    IF DOMAIN s.commit_ballot_state.confirmed = {} THEN [s |-> s, pool |-> pool]
    ELSE
      LET finalised_ballot == s.commit_ballot_state.confirmed[
                                  Drawn(s.commit_ballot_state.confirmed, pv)]
          externalize_msg == SCPExternalize(finalised_ballot, h[finalised_ballot], now)
          s1 == [s EXCEPT
                   !.ledger = Ledger_add_slot(@, s.slot, externalize_msg),
                   !.externalize_broadcast_flags = @ \cup {<<s.slot, externalize_msg>>},
                   !.externalized_slot_counter = @ \cup {externalize_msg}]
          s2 == [reset_nomination_state(s1) EXCEPT !.last_nomination_start_time = now]
          s3 == reset_prepare_ballot_phase(
                    reset_commit_phase_state(s2, finalised_ballot), finalised_ballot)
          r == remove_txs_from_mempool(s3, pool, finalised_ballot.value)
      IN [s |-> [r.s EXCEPT !.slot = @ + 1, !.nomination_round = 1], pool |-> r.pool]

\* Node.prepare_Externalize_msg with pv the key retrieve_confirmed_commit_ballot
\* drew; [s |-> node, pool |-> mempool]
prepare_Externalize_msg(s, h, now, pool, pv) ==
    IF DOMAIN s.commit_ballot_state.confirmed = {} THEN [s |-> s, pool |-> pool]
    ELSE
      LET finalised_ballot == s.commit_ballot_state.confirmed[
                                  Drawn(s.commit_ballot_state.confirmed, pv)]
          externalize_msg == SCPExternalize(finalised_ballot, h[finalised_ballot], now)
          s1 == [s EXCEPT
                   !.ledger = Ledger_add_slot(@, s.slot, externalize_msg),
                   !.externalize_broadcast_flags = @ \cup {<<s.slot, externalize_msg>>},
                   !.externalized_slot_counter = @ \cup {externalize_msg}]
          s2 == [reset_nomination_state(s1) EXCEPT
                   !.priority_list = {},
                   !.last_nomination_start_time = now]
          s3 == reset_prepare_ballot_phase(
                    reset_commit_phase_state(s2, finalised_ballot), finalised_ballot)
          r == remove_txs_from_mempool(s3, pool, finalised_ballot.value)
      IN [s |-> [r.s EXCEPT !.slot = @ + 1, !.nomination_round = 1], pool |-> r.pool]

\* a variant that stores every pulled record in the ledger, whatever the slot
process_externalize_msg_stored(s, now, pool, slot_number, message, sending_node) ==
    [s |-> [s EXCEPT !.ledger = Ledger_add_slot(@, slot_number, message)], pool |-> pool]

\* Node.process_externalize_msg(slot_number, message, sending_node)
process_externalize_msg(s, now, pool, slot_number, message, sending_node) ==
    IF slot_number \in DOMAIN s.ledger THEN [s |-> s, pool |-> pool]
    ELSE IF slot_number # s.slot THEN [s |-> s, pool |-> pool]
    ELSE
      LET s1 == [s EXCEPT
                   !.ledger = Ledger_add_slot(@, slot_number, message),
                   !.peer_externalised_statements =
                       Put(@, sending_node,
                           Get(@, sending_node, {}) \cup {<<slot_number, message>>}),
                   !.externalize_broadcast_flags = @ \cup {<<slot_number, message>>},
                   !.externalized_slot_counter = @ \cup {message},
                   !.nomination_round = 1]
          s2 == [reset_nomination_state(s1) EXCEPT !.last_nomination_start_time = now]
          s3 == reset_prepare_ballot_phase(
                    reset_commit_phase_state(s2, message.ballot), message.ballot)
          r == remove_txs_from_mempool(s3, pool, message.ballot.value)
      IN [s |-> [r.s EXCEPT !.slot = @ + 1], pool |-> r.pool]

\* Node.retrieve_externalize_msg: the drawn pair is recorded for the peer
retrieve_externalize_msg(s, peer, pair) ==
    [s EXCEPT !.peer_externalised_statements =
        Put(@, peer, Get(@, peer, {}) \cup {pair})]

\* Node.receive_Externalize_msg with the peer and the pair drawn
receive_Externalize_msg(s, now, pool, peer, pair) ==
    process_externalize_msg(retrieve_externalize_msg(s, peer, pair),
                            now, pool, pair[1], pair[2], peer)

\* a variant that calls prepare_Externalize_msg after either promotion
receive_commit_quorum_eager(r, s1, self, q, h, now, b, pv) ==
    IF (b.value \in DOMAIN s1.commit_ballot_state.accepted
        \/ b.value \in DOMAIN s1.commit_ballot_state.voted)
       /\ check_Commit_Quorum_threshold(s1, self, q, b)
    THEN Then(Note(update_commit_balloting_state(
                       s1, b, IF b.value \in DOMAIN s1.commit_ballot_state.accepted
                              THEN "accepted" ELSE "voted")), LAMBDA sb :
         Then(prepare_Externalize_msg(sb, h, now, r.pool, pv), LAMBDA x :
            [r EXCEPT !.s = x.s, !.pool = x.pool,
                      !.calls = Append(@, [before |-> sb, after |-> x.s])]))
    ELSE [r EXCEPT !.s = s1]

\* the quorum checks of the loop of receive_commit_message, on the node s1
\* that has processed the message; r.calls lists the calls of
\* prepare_Externalize_msg made so far, each with the node before and after it
receive_commit_quorum(r, s1, self, q, h, now, b, pv) ==
    IF b.value \in DOMAIN s1.commit_ballot_state.accepted
       /\ check_Commit_Quorum_threshold(s1, self, q, b)
    THEN Then(Note(update_commit_balloting_state(s1, b, "accepted")), LAMBDA sb :
         Then(prepare_Externalize_msg(sb, h, now, r.pool, pv), LAMBDA x :
            [r EXCEPT !.s = x.s, !.pool = x.pool,
                      !.calls = Append(@, [before |-> sb, after |-> x.s])]))
    ELSE IF b.value \in DOMAIN s1.commit_ballot_state.voted
            /\ check_Commit_Quorum_threshold(s1, self, q, b)
    THEN [r EXCEPT !.s = Note(update_commit_balloting_state(s1, b, "voted"))]
    ELSE [r EXCEPT !.s = s1]

\* the v-blocking check that ends the body of the loop; ov is the voted
\* ballot the loop over the other voted ballots meets first
receive_commit_blocking(r2, q, b, ov) ==
    LET others == DOMAIN r2.s.commit_ballot_state.voted \ {b.value}
        old == IF ov \in others THEN ov ELSE CHOOSE v \in others : TRUE
    IN IF others # {} /\ is_v_blocking_commit(r2.s, q, b)
       THEN Then(reset_commit_phase_state(r2.s, r2.s.commit_ballot_state.voted[old]),
                 LAMBDA s3 :
                    [r2 EXCEPT !.s =
                        IF b.value \notin DOMAIN s3.commit_ballot_state.voted
                        THEN Note([s3 EXCEPT !.commit_ballot_state.voted = Put(@, b.value, b)])
                        ELSE s3])
       ELSE r2

\* the body of the loop of receive_commit_message for one unseen message
receive_commit_one(r, self, q, h, now, msg, peer, pv, ov) ==
    IF is_ballot_finalized(r.s, msg.ballot)
    THEN [r EXCEPT !.s = reset_commit_phase_state(
                             reset_prepare_ballot_phase(r.s, msg.ballot), msg.ballot)]
    ELSE Then(Note(simple_process_commit_ballot_message(r.s, msg, peer)), LAMBDA s1 :
         Then(receive_commit_quorum(r, s1, self, q, h, now, msg.ballot, pv), LAMBDA r2 :
            receive_commit_blocking(r2, q, msg.ballot, ov)))

RECURSIVE receive_commit_loop(_, _, _, _, _, _, _, _, _)
\* `seen` is the set made on entry: once a reset has rewritten the entry
\* (r.live is false), seen.add no longer reaches the map
receive_commit_loop(r, self, q, h, now, unseen, peer, pv, ov) ==
    IF unseen = <<>> THEN r
    ELSE Then(IF r.live
              THEN [r EXCEPT !.s.received_commit_ballot_broadcast_msgs =
                                Put(@, peer, Seen(@, peer) \cup {Head(unseen)})]
              ELSE r, LAMBDA r1 :
         Then(receive_commit_one(r1, self, q, h, now, Head(unseen), peer, pv, ov), LAMBDA r2 :
            receive_commit_loop(
                [r2 EXCEPT !.live =
                    r.live /\ Head(unseen) \in
                                 Seen(r2.s.received_commit_ballot_broadcast_msgs, peer)],
                self, q, h, now, Tail(unseen), peer, pv, ov)))

\* Node.receive_commit_message with the peer drawn, the order of the unseen
\* messages, the key pv a nested prepare_Externalize_msg draws and the voted
\* ballot ov the v-blocking loop meets first
receive_commit_message(s, self, q, h, now, pool, peer, order, pv, ov) ==
    receive_commit_loop([s |-> s, pool |-> pool, live |-> TRUE, calls |-> <<>>],
                        self, q, h, now, order, peer, pv, ov)

\* --------------------------------------------- receive_message (Nominate)
\* Node.retrieve_broadcast_message(providing_node) on the map of all nodes:
\* [ns |-> nodes after, msg |-> the message or None]
retrieve_broadcast_message(ns, self, p) ==
    IF ns[p].broadcast_flags = <<>> THEN [ns |-> ns, msg |-> <<>>]
    ELSE
      LET seen == Get(ns[self].received_broadcast_msgs, p, {})
          ns1 == [ns EXCEPT ![self].received_broadcast_msgs = Put(@, p, seen)]
          unseen == SelectSeq(ns[p].broadcast_flags, LAMBDA m : m \notin seen)
      IN IF unseen = <<>> THEN [ns |-> ns1, msg |-> <<>>]
         ELSE LET msg == Head(unseen)
                  ns2 == [ns1 EXCEPT ![self].received_broadcast_msgs[p] = @ \cup {msg}]
              IN [ns |-> IF is_message_externalized(ns2[self], msg)
                         THEN [ns2 EXCEPT ![p].broadcast_flags = SeqRemove(@, msg)]
                         ELSE ns2,
                  msg |-> <<msg>>]

\* the body of the loop of receive_message for one priority node
receive_message_one(ns, self, q, p) ==
    LET Promote(s, field, vals) ==
           IF vals # <<>> /\ check_Quorum_threshold(s, self, q, vals[1])
           THEN Note(update_nomination_state(s, vals[1], field))
           ELSE s
        Process(s, message) ==
           Promote(Promote(update_statement_count(
                               process_received_message(s, message), p, message),
                           "voted", message[1]),
                   "accepted", message[2])
        Receive(r) ==
           IF r.msg = <<>> THEN r.ns
           ELSE [r.ns EXCEPT ![self] = Process(@, parse_message_state(r.msg[1]))]
    IN Receive(retrieve_broadcast_message(ns, self, p))

RECURSIVE receive_message_loop(_, _, _, _)
receive_message_loop(ns, self, q, order) ==
    IF order = <<>> THEN ns
    ELSE receive_message_loop(receive_message_one(ns, self, q, Head(order)),
                              self, q, Tail(order))

\* Node.receive_message up to the loop: the round and the priority list
receive_message_head(s, self, env) ==
    get_highest_priority_neighbor(check_update_nomination_round(s, self, env), self, env)

\* ------------------------------------------------------------- the driver
\* what a random draw from S can give; a handler that finds S empty
\* returns before drawing
Drawable(S) == IF S = {} THEN {{}} ELSE S

\* the simulation as one record, and the step that makes it the next state
World ==
    [nodes |-> nodes, quorum_set |-> quorum_set, mempool |-> mempool,
     ballots |-> ballots, time |-> time, created |-> created, Gi1 |-> Gi1,
     max_ballots |-> max_ballots]
Becomes(w) ==
    /\ nodes' = w.nodes
    /\ quorum_set' = w.quorum_set
    /\ mempool' = w.mempool
    /\ ballots' = w.ballots
    /\ time' = w.time
    /\ created' = w.created
    /\ Gi1' = w.Gi1
    /\ max_ballots' = w.max_ballots
    /\ UNCHANGED probe

Env(w, n) == [time |-> w.time, Gi1 |-> w.Gi1, q |-> w.quorum_set[n], mempool |-> w.mempool]
Net == DOMAIN nodes

\* the driver's calls of the node operations, on the simulation w
call_nominate(w, n) ==
    [w EXCEPT !.nodes[n] = nominate(@, n, Env(w, n))]

\* the orders in which receive_message can iterate the priority list
PriorityOrders(w, n) ==
    Perms(receive_message_head(w.nodes[n], n, Env(w, n)).priority_list \ {n})

\* a node whose quorum set has no nodes and no inner sets returns at once
call_receive_message(w, n, order) ==
    LET s1 == receive_message_head(w.nodes[n], n, Env(w, n))
    IN IF w.quorum_set[n].nodes = <<>> /\ w.quorum_set[n].inner_sets = <<>> THEN w
       ELSE [w EXCEPT !.nodes =
               receive_message_loop([w.nodes EXCEPT ![n] = s1], n, w.quorum_set[n], order)]

call_prepare_ballot_msg(w, n, v) ==
    LET r == prepare_ballot_msg(w.nodes[n], n, w.ballots, v)
    IN [w EXCEPT !.nodes[n] = Note(r.s), !.ballots = r.h]

UnseenPrepare(w, n, peer) ==
    Unseen(w.nodes[n].received_prepare_broadcast_msgs, peer,
           w.nodes[peer].ballot_prepare_broadcast_flags)

call_receive_prepare_message(w, n, peer, order) ==
    [w EXCEPT !.nodes[n] =
        receive_prepare_message(@, n, w.quorum_set[n], w.ballots, peer,
                                w.nodes[peer].ballot_prepare_broadcast_flags, order)]

call_prepare_SCPCommit_msg(w, n, vh) ==
    [w EXCEPT !.nodes[n] = Note(prepare_SCPCommit_msg(@, n, w.ballots, vh))]

UnseenCommit(w, n, peer) ==
    Unseen(w.nodes[n].received_commit_ballot_broadcast_msgs, peer,
           w.nodes[peer].commit_ballot_broadcast_flags)

\* the keys the draws inside receive_commit_message can fall on
CommitKeys(w, n, peer) ==
    DOMAIN w.nodes[n].commit_ballot_state.voted
    \cup DOMAIN w.nodes[n].commit_ballot_state.accepted
    \cup DOMAIN w.nodes[n].commit_ballot_state.confirmed
    \cup {m.ballot.value : m \in UnseenCommit(w, n, peer)}

\* the result record of receive_commit_message at n
commit_result(w, n, peer, order, pv, ov) ==
    receive_commit_message(w.nodes[n], n, w.quorum_set[n], w.ballots, w.time,
                           w.mempool, peer, order, pv, ov)

call_receive_commit_message(w, n, peer, order, pv, ov) ==
    LET r == commit_result(w, n, peer, order, pv, ov)
    IN [w EXCEPT !.nodes[n] = r.s, !.mempool = r.pool]

call_prepare_Externalize_msg(w, n, pv) ==
    LET r == prepare_Externalize_msg(w.nodes[n], w.ballots, w.time, w.mempool, pv)
    IN [w EXCEPT !.nodes[n] = r.s, !.mempool = r.pool]

call_receive_Externalize_msg(w, n, peer, pair) ==
    LET r == receive_Externalize_msg(w.nodes[n], w.time, w.mempool, peer, pair)
    IN [w EXCEPT !.nodes[n] = r.s, !.mempool = r.pool]

\* ----------------------------------------------------------------- actions
\* the driver advances the simulated clock to a later instant
TickTo(last) ==
    /\ time < last
    /\ \E t \in (time + 1) .. last : Becomes([World EXCEPT !.time = t])

\* the mempool receives a new transaction
AddTx ==
    /\ created < MaxTx
    /\ Becomes([World EXCEPT !.created = @ + 1, !.mempool = Append(@, created + 1)])

Nominate(n) == Becomes(call_nominate(World, n))

ReceiveNomination(n) ==
    \E order \in PriorityOrders(World, n) :
       Becomes(call_receive_message(World, n, order))

PrepareBallot(n) ==
    /\ Cardinality(DOMAIN ballots) < max_ballots
    /\ \E v \in Drawable(Range(nodes[n].nomination_state.confirmed)) :
          Becomes(call_prepare_ballot_msg(World, n, v))

\* retrieve_random_peer gives None to a node without peers, which returns
ReceivePrepare(n) ==
    IF QS_peers(quorum_set[n], n) = {} THEN Becomes(World)
    ELSE \E peer \in QS_peers(quorum_set[n], n) :
            \E order \in Perms(UnseenPrepare(World, n, peer)) :
               Becomes(call_receive_prepare_message(World, n, peer, order))

PrepareCommit(n) ==
    \E vh \in Drawable(DOMAIN nodes[n].balloting_state.confirmed) :
       Becomes(call_prepare_SCPCommit_msg(World, n, vh))

ReceiveCommit(n) ==
    IF QS_peers(quorum_set[n], n) = {} THEN Becomes(World)
    ELSE \E peer \in QS_peers(quorum_set[n], n) :
            \E order \in Perms(UnseenCommit(World, n, peer)) :
               \E pv \in Drawable(CommitKeys(World, n, peer)) :
                  \E ov \in Drawable(CommitKeys(World, n, peer)) :
                     Becomes(call_receive_commit_message(World, n, peer, order, pv, ov))

PrepareExternalize(n) ==
    \E pv \in Drawable(DOMAIN nodes[n].commit_ballot_state.confirmed) :
       Becomes(call_prepare_Externalize_msg(World, n, pv))

\* a node without peers, or whose peer has broadcast no SCPExternalize, returns
ReceiveExternalize(n) ==
    IF QS_peers(quorum_set[n], n) = {} THEN Becomes(World)
    ELSE \E peer \in QS_peers(quorum_set[n], n) :
            IF nodes[peer].externalize_broadcast_flags = {} THEN Becomes(World)
            ELSE \E pair \in nodes[peer].externalize_broadcast_flags :
                    Becomes(call_receive_Externalize_msg(World, n, peer, pair))

\* one operation of one node
NodeStep ==
    \/ \E n \in Net : Nominate(n)
    \/ \E n \in Net : ReceiveNomination(n)
    \/ \E n \in Net : PrepareBallot(n)
    \/ \E n \in Net : ReceivePrepare(n)
    \/ \E n \in Net : PrepareCommit(n)
    \/ \E n \in Net : ReceiveCommit(n)
    \/ \E n \in Net : PrepareExternalize(n)
    \/ \E n \in Net : ReceiveExternalize(n)

Next ==
    \/ TickTo(MaxTime)
    \/ AddTx
    \/ NodeStep

\* ------------------------------------------------------------ initial state
SlotsG == 1 .. 4
RoundsG == 1 .. (MaxRoundTime + 1)
\* a sample of the hash Gi([1, round, name]): every draw in the lowest sixth
GiLow == [x \in SlotsG \X RoundsG \X Nodes |-> 0]

\* a FULL topology over the nodes of net: every node lists every other node
FullQuorum(net) ==
    [n \in net |-> [threshold |-> THRESHOLD_DEFAULT,
                    nodes |-> CHOOSE q \in Perms(net \ {n}) : TRUE,
                    inner_sets |-> <<>>]]

\* the simulation after construction: net the nodes, pool the mempool
Constructed(net, pool, cap) ==
    [nodes |-> [n \in net |-> NewNode], quorum_set |-> FullQuorum(net),
     mempool |-> pool, ballots |-> EmptyMap, time |-> 0, created |-> Len(pool),
     Gi1 |-> GiLow, max_ballots |-> cap]

\* no predicate or helper has been called on its own
NoCall == [op |-> "none"]

\* the simulation w is the state
Is(w) ==
    /\ nodes = w.nodes
    /\ quorum_set = w.quorum_set
    /\ mempool = w.mempool
    /\ ballots = w.ballots
    /\ time = w.time
    /\ created = w.created
    /\ Gi1 = w.Gi1
    /\ max_ballots = w.max_ballots

\* the simulation w is the state, and the call under study is one of calls
Starts(w, calls) == Is(w) /\ probe \in calls

Init == Starts(Constructed({"A", "B"}, <<>>, MaxBallots), {NoCall})

Spec == Init /\ [][Next]_vars

\* ------------------------------------------------- runs of the simulation
\* one call of the driver, written <<operation, node, what it drew>>; a set
\* of unseen messages is iterated in one of its orders
Apply(w, op) ==
    CASE op[1] = "add_tx" ->
           [w EXCEPT !.created = @ + 1, !.mempool = Append(@, w.created + 1)]
      [] op[1] = "tick" -> [w EXCEPT !.time = op[2]]
      [] op[1] = "nominate" -> call_nominate(w, op[2])
      [] op[1] = "receive_message" -> call_receive_message(w, op[2], op[3])
      [] op[1] = "prepare_ballot_msg" -> call_prepare_ballot_msg(w, op[2], op[3])
      [] op[1] = "receive_prepare_message" ->
           call_receive_prepare_message(w, op[2], op[3],
               CHOOSE o \in Perms(UnseenPrepare(w, op[2], op[3])) : TRUE)
      [] op[1] = "prepare_SCPCommit_msg" -> call_prepare_SCPCommit_msg(w, op[2], op[3])
      [] op[1] = "receive_commit_message" ->
           call_receive_commit_message(w, op[2], op[3],
               CHOOSE o \in Perms(UnseenCommit(w, op[2], op[3])) : TRUE, {}, {})
      [] op[1] = "prepare_Externalize_msg" -> call_prepare_Externalize_msg(w, op[2], {})
      [] op[1] = "receive_Externalize_msg" ->
           call_receive_Externalize_msg(w, op[2], op[3],
               CHOOSE p \in w.nodes[op[3]].externalize_broadcast_flags : p[1] = op[4])

RECURSIVE Run(_, _)
\* the simulation after the calls of ops, in order
Run(w, ops) == IF ops = <<>> THEN w ELSE Run(Apply(w, Head(ops)), Tail(ops))


\* ------------------------------------------------ the threshold predicates
\* QuorumSet.check_threshold(val, quorum, threshold, node_statement_counter):
\* every element of the flattened list is counted
QS_check_threshold(val, quorum, threshold, counter) ==
    LET entry == Get(counter, val, [voted |-> {}, accepted |-> {}])
        signed == Cardinality({i \in DOMAIN quorum :
                     quorum[i] \in entry.voted \/ quorum[i] \in entry.accepted})
    IN signed >= threshold

\* QuorumSet.check_prepare_threshold and QuorumSet.check_commit_threshold
\* (the same text twice), on the counter of the phase
QS_check_ballot_threshold(b, quorum, threshold, counter) ==
    /\ b.value \in DOMAIN counter
    /\ LET entry == counter[b.value]
           seen == {p \in Range(quorum) : p \in entry.voted \/ p \in entry.accepted}
       IN Cardinality(seen) >= threshold

\* what a call gives: a value returned or an exception raised
Returns(v) == [raises |-> "", value |-> v]
Raises(e) == [raises |-> e, value |-> FALSE]

\* QuorumSet.check_inner_set_blocking_threshold(calling_node, val, quorum):
\* statement_counter[val.hash] is indexed, not looked up with a default
check_inner_set_blocking_threshold(s, self, val, quorum) ==
    IF val \notin DOMAIN s.statement_counter THEN Raises("KeyError")
    ELSE LET entry == s.statement_counter[val]
         IN Returns(Cardinality({p \in Range(quorum) \ {self} :
                                    p \in entry.voted \/ p \in entry.accepted}))

RECURSIVE SumCounts(_, _, _, _)
\* the sum of check_inner_set_blocking_threshold over the inner sets
SumCounts(s, self, val, inner_sets) ==
    IF inner_sets = <<>> THEN 0
    ELSE check_inner_set_blocking_threshold(s, self, val, Head(inner_sets)).value
         + SumCounts(s, self, val, Tail(inner_sets))

\* Node.check_Blocking_threshold(val)
check_Blocking_threshold(s, self, q, val) ==
    LET unique_quorum_nodes == QS_members(q)
        n == Cardinality(unique_quorum_nodes)
        k == QS_minimum_quorum(q)
        known == val \in DOMAIN s.statement_counter
        entry == s.statement_counter[val]
        signed_count == 1 + Cardinality({p \in unique_quorum_nodes \ {self} :
                                            p \in entry.voted \/ p \in entry.accepted})
    IN IF ~InSeq(val, s.nomination_state.voted) /\ ~InSeq(val, s.nomination_state.accepted)
       THEN Returns(FALSE)
       ELSE IF n = 0 THEN Returns(FALSE)
       ELSE IF ~known /\ (unique_quorum_nodes \ {self} # {} \/ q.inner_sets # <<>>)
       THEN Raises("KeyError")
       ELSE IF ~known THEN Returns(1 > n - k)
       ELSE Returns(signed_count + SumCounts(s, self, val, q.inner_sets) > n - k)

\* ------------------------------------- the threshold predicates on their own
\* The node of every call is A; it is asked about the value {1} and the
\* ballot of it.  An input is the quorum set of A, the list in which A holds
\* the value, and what the statement counters of A say about it.
ProbeValue == {1}
ProbeBallot == [by |-> "A", k |-> 1, value |-> ProbeValue]
ProbeNames == <<"A", "B", "C", "D", "E", "F">>

ThresholdInputs ==
    LET ProbeQuorums ==
          {[threshold |-> t, nodes |-> SubSeq(ProbeNames, i, j), inner_sets |-> inner] :
              t \in {THRESHOLD_DEFAULT, 67},
              i \in 1 .. Len(ProbeNames), j \in 0 .. Len(ProbeNames),
              inner \in {<<>>, <<<<"B", "C">>>>, <<<<"C", "D">>, <<"D", "F">>>>}}
        \* no entry (the empty list), or the entry
        ProbeEntries ==
          {<<>>} \cup {<<[voted |-> v, accepted |-> a]>> :
                          v \in SUBSET {"B", "C", "D"} \cup {{"B", "C", "D", "E"}},
                          a \in {{}, {"B"}, {"F"}}}
    IN [op : {"input"}, q : ProbeQuorums, held : {"none", "voted", "accepted"},
        entry : ProbeEntries]

\* the node A of an input
ProbeNode(in) ==
    LET holds(field) == IF in.held = field THEN <<ProbeValue>> ELSE <<>>
        keeps(field) == IF in.held = field THEN ProbeValue :> ProbeBallot ELSE EmptyMap
        nom == IF in.entry = <<>> THEN EmptyMap ELSE ProbeValue :> in.entry[1]
        bal == IF in.entry = <<>> THEN EmptyMap
               ELSE ProbeValue :> [BlankCtr EXCEPT !.voted = in.entry[1].voted,
                                                   !.accepted = in.entry[1].accepted]
    IN [NewNode EXCEPT
          !.nomination_state = [voted |-> holds("voted"), accepted |-> holds("accepted"),
                                confirmed |-> <<>>],
          !.statement_counter = nom,
          !.balloting_state.voted = keeps("voted"),
          !.balloting_state.accepted = keeps("accepted"),
          !.ballot_statement_counter = bal,
          !.commit_ballot_state.voted = keeps("voted"),
          !.commit_ballot_state.accepted = keeps("accepted"),
          !.commit_ballot_statement_counter = bal]

\* the call of the predicate op on the input in
ThresholdCall(op, in) ==
    LET s == ProbeNode(in)
        q == in.q
        quorum == q.nodes \o Flatten(q.inner_sets)
    IN CASE op = "check_Quorum_threshold" ->
              Returns(check_Quorum_threshold(s, "A", q, ProbeValue))
         [] op = "check_Blocking_threshold" ->
              check_Blocking_threshold(s, "A", q, ProbeValue)
         [] op = "check_Prepare_Quorum_threshold" ->
              Returns(check_Prepare_Quorum_threshold(s, "A", q, ProbeBallot))
         [] op = "is_v_blocking" -> Returns(is_v_blocking(s, q, ProbeBallot))
         [] op = "check_Commit_Quorum_threshold" ->
              Returns(check_Commit_Quorum_threshold(s, "A", q, ProbeBallot))
         [] op = "_is_v_blocking_commit" -> Returns(is_v_blocking_commit(s, q, ProbeBallot))
         [] op = "check_threshold" ->
              Returns(QS_check_threshold(ProbeValue, quorum, QS_minimum_quorum(q),
                                         s.statement_counter))
         [] op = "check_prepare_threshold" ->
              Returns(QS_check_ballot_threshold(ProbeBallot, quorum, QS_minimum_quorum(q),
                                                s.ballot_statement_counter))
         [] op = "check_commit_threshold" ->
              Returns(QS_check_ballot_threshold(ProbeBallot, quorum, QS_minimum_quorum(q),
                                                s.commit_ballot_statement_counter))

Threshold(op) ==
    /\ probe.op = "input"
    /\ probe' = [op |-> op, q |-> probe.q, held |-> probe.held, entry |-> probe.entry,
                 result |-> ThresholdCall(op, probe)]
    /\ UNCHANGED <<nodes, quorum_set, mempool, ballots, time, created, Gi1, max_ballots>>

NextThreshold ==
    \/ Threshold("check_Quorum_threshold")
    \/ Threshold("check_Blocking_threshold")
    \/ Threshold("check_Prepare_Quorum_threshold")
    \/ Threshold("is_v_blocking")
    \/ Threshold("check_Commit_Quorum_threshold")
    \/ Threshold("_is_v_blocking_commit")
    \/ Threshold("check_threshold")
    \/ Threshold("check_prepare_threshold")
    \/ Threshold("check_commit_threshold")

SpecThreshold == Starts(Constructed({}, <<>>, 0), ThresholdInputs) /\ [][NextThreshold]_vars


\* ------------------------------------------------ minimum_quorum on its own
\* the peers a quorum set is made of
Alphabet ==
    <<"B", "C", "D", "E", "F", "G", "H", "I", "J", "K", "L", "M", "N",
      "O", "P", "Q", "R", "S", "T", "U", "V", "W", "X", "Y", "Z">>

\* quorum sets of up to 25 peers, all validators or the last of them in an
\* inner set, with every int percentage as the threshold
SizeInputs ==
    {[op |-> "input",
      q |-> [threshold |-> t, nodes |-> SubSeq(Alphabet, 1, k),
             inner_sets |-> IF j = k THEN <<>> ELSE <<SubSeq(Alphabet, k + 1, j)>>]] :
        t \in 1 .. 100, k \in 0 .. Len(Alphabet), j \in {0, Len(Alphabet)}}

\* QuorumSet.size, then QuorumSet.minimum_quorum
MinimumQuorum ==
    /\ probe.op = "input"
    /\ probe' = [op |-> "minimum_quorum", q |-> probe.q, size |-> QS_size(probe.q),
                 result |-> QS_minimum_quorum(probe.q)]
    /\ UNCHANGED <<nodes, quorum_set, mempool, ballots, time, created, Gi1, max_ballots>>

SpecSize == Starts(Constructed({}, <<>>, 0), SizeInputs) /\ [][MinimumQuorum]_vars

\* --------------------------------------- a node with an empty quorum set
\* the simulation of A and B in which A trusts nobody and B trusts A: A's
\* quorum set is QuorumSet(node) before any set_quorum, with no validators and
\* no inner sets
SpecEmptyQuorum ==
    /\ Starts([Constructed({"A", "B"}, <<>>, MaxBallots) EXCEPT
                  !.quorum_set["A"] =
                      [threshold |-> THRESHOLD_DEFAULT, nodes |-> <<>>, inner_sets |-> <<>>]],
              {NoCall})
    /\ [][Next]_vars

\* ----------------------------------------------- the merges on their own
\* the nomination lists a node can hold when a merge begins: a value has
\* at most MAX_SLOT_TXS transactions, a transaction is named by its hash
MergeInputs ==
    LET MergeVoted ==
          {<<>>, <<1 .. MAX_SLOT_TXS>>, <<2 .. (MAX_SLOT_TXS + 1)>>,
           <<1 .. (MAX_SLOT_TXS \div 2)>>}
        MergeAccepted ==
          {<<>>, <<1 .. MAX_SLOT_TXS>>, <<(MAX_SLOT_TXS - 49) .. (MAX_SLOT_TXS + 150)>>}
        \* what the peer B broadcasts: nothing, or one SCPNominate
        MergeFlags ==
          {<<>>} \cup
          {<<m>> : m \in
              {m \in [voted : {<<>>, <<{1}>>, <<{MAX_SLOT_TXS + 1}>>,
                               <<(MAX_SLOT_TXS \div 2 + 1) .. (MAX_SLOT_TXS + 100)>>},
                      accepted : {<<>>, <<{MAX_SLOT_TXS + 151}>>, <<1 .. MAX_SLOT_TXS>>},
                      confirmed : {<<>>}] :
                  m.voted # <<>> \/ m.accepted # <<>>}}
        \* Mempool.get_all_transactions()
        MergePools == {<<>>, <<MAX_SLOT_TXS + 1, 1>>, [i \in 1 .. (MAX_SLOT_TXS + 1) |-> i]}
    IN [op : {"input"}, voted : MergeVoted, accepted : MergeAccepted,
        flags : MergeFlags, pool : MergePools]

\* the simulation of A, B and C in which A holds the lists of the input
\* and B broadcasts its message
MergeWorld(in) ==
    LET w == Constructed(Nodes, in.pool, 0)
        a == [NewNode EXCEPT !.nomination_state.voted = in.voted,
                             !.nomination_state.accepted = in.accepted]
        b == IF in.flags = <<>> THEN NewNode
             ELSE [NewNode EXCEPT !.nomination_state = in.flags[1]]
    IN [w EXCEPT !.nodes["A"] = update_local_nomination_broadcast(Note(a)),
                 !.nodes["B"] = update_local_nomination_broadcast(Note(b))]

\* A.nominate() on the simulation of the input
MergeNominate ==
    /\ probe.op = "input"
    /\ probe' = [op |-> "nominate", in |-> probe,
                 s |-> call_nominate(MergeWorld(probe), "A").nodes["A"]]
    /\ UNCHANGED <<nodes, quorum_set, mempool, ballots, time, created, Gi1, max_ballots>>

\* A.receive_message() on the simulation of the input
MergeReceive ==
    /\ probe.op = "input"
    /\ \E order \in PriorityOrders(MergeWorld(probe), "A") :
          probe' = [op |-> "receive_message", in |-> probe,
                    s |-> call_receive_message(MergeWorld(probe), "A", order).nodes["A"]]
    /\ UNCHANGED <<nodes, quorum_set, mempool, ballots, time, created, Gi1, max_ballots>>

NextMerge ==
    \/ MergeNominate
    \/ MergeReceive
SpecMerge == Starts(Constructed({}, <<>>, 0), MergeInputs) /\ [][NextMerge]_vars

\* ------------------------------------------------- the nomination round
\* A, B and C with an empty mempool while the time runs to MaxRoundTime:
\* the calls of nominate and receive_message move the round and nothing else
NextRound ==
    \/ TickTo(MaxRoundTime)
    \/ \E n \in Net : Nominate(n)
    \/ \E n \in Net : ReceiveNomination(n)
SpecRound == Starts(Constructed(Nodes, <<>>, 0), {NoCall}) /\ [][NextRound]_vars

\* --------------------------------------------------------- the second slot
\* a mempool of one transaction more than a slot takes
LargePool == [i \in 1 .. (MAX_SLOT_TXS + 1) |-> i]

\* calls of the driver after which C has externalised v in slot 1: A
\* nominates twice, so that its tx_queue keeps the last transaction of v
FirstSlot(v) ==
    << <<"nominate", "A">>, <<"nominate", "A">>, <<"nominate", "B">>,
       <<"receive_message", "C", <<"A", "B">>>>, <<"receive_message", "A", <<"B", "C">>>>,
       <<"receive_message", "B", <<"A", "C">>>>, <<"receive_message", "C", <<"A", "B">>>>,
       <<"prepare_ballot_msg", "A", v>>, <<"prepare_ballot_msg", "A", v>>,
       <<"prepare_ballot_msg", "B", v>>, <<"prepare_ballot_msg", "C", v>>,
       <<"receive_prepare_message", "A", "B">>, <<"receive_prepare_message", "A", "C">>,
       <<"receive_prepare_message", "B", "A">>, <<"receive_prepare_message", "B", "C">>,
       <<"prepare_SCPCommit_msg", "A", v>>, <<"prepare_SCPCommit_msg", "B", v>>,
       <<"receive_commit_message", "C", "A">>, <<"receive_commit_message", "C", "B">> >>

\* A, B and C once C has externalised the first MAX_SLOT_TXS transactions of
\* the mempool; A and B learn the slot from C and the nodes nominate again
NextSecondSlot ==
    \/ \E n \in Net : Nominate(n)
    \/ \E n \in Net : ReceiveExternalize(n)
SpecSecondSlot ==
    /\ Starts(Run(Constructed(Nodes, LargePool, MaxBallots + 1), FirstSlot(1 .. MAX_SLOT_TXS)),
              {NoCall})
    /\ [][NextSecondSlot]_vars

\* the same run once A has learnt slot 1 from C and has nominated in
\* slot 2; from there the nodes pull each other's Nominate messages
NextPull == \E n \in Net : ReceiveNomination(n)
SpecPull ==
    /\ Starts(Run(Constructed(Nodes, LargePool, MaxBallots + 1),
                  FirstSlot(1 .. MAX_SLOT_TXS)
                  \o << <<"receive_Externalize_msg", "A", "C", 1>>, <<"nominate", "A">> >>),
              {NoCall})
    /\ [][NextPull]_vars

\* ------------------------------------------------------------ the exchange
\* A, B and C with a threshold of 67; A has nominated from a mempool that
\* holds transaction 1 and B from a mempool that holds transaction 2
\* from there the nodes pull each other's Nominate messages
SpecExchange ==
    /\ Starts(LET w == [Constructed(Nodes, <<>>, 0) EXCEPT
                          !.quorum_set = [n \in Nodes |-> [@[n] EXCEPT !.threshold = 67]]]
              IN [w EXCEPT
                    !.nodes["A"] = nominate(@, "A", [Env(w, "A") EXCEPT !.mempool = <<1>>]),
                    !.nodes["B"] = nominate(@, "B", [Env(w, "B") EXCEPT !.mempool = <<2>>])],
              {NoCall})
    /\ [][NextPull]_vars

\* ------------------------------------------- the first slot being decided
\* the nodes have confirmed the nomination of v = {1}, prepared ballots for it,
\* and A and B have pulled the others' Prepare messages
Heard == Run(Constructed(Nodes, <<1>>, MaxBallots + 1), SubSeq(FirstSlot({1}), 1, 15))

\* from there the driver calls the balloting and externalise operations, while
\* clients submit transactions
NextLedger ==
    \/ AddTx
    \/ \E n \in Net : ReceivePrepare(n)
    \/ \E n \in Net : PrepareCommit(n)
    \/ \E n \in Net : ReceiveCommit(n)
    \/ \E n \in Net : PrepareExternalize(n)
    \/ \E n \in Net : ReceiveExternalize(n)

SpecLedger == Starts(Heard, {NoCall}) /\ [][NextLedger]_vars

\* --------------------------------------------- two values being committed
\* calls of the driver after which the prepare phase has confirmed two values:
\* {1} at A and B, {1, 2} at A and C. A nominates {1}, a client adds
\* transaction 2 and B nominates {1, 2}; a node counts the Prepare of a peer
\* whose counter is below its own, so a node prepares twice before it pulls
TwoValues ==
    << <<"nominate", "A">>, <<"add_tx">>, <<"nominate", "B">>,
       <<"receive_message", "C", <<"A", "B">>>>, <<"receive_message", "B", <<"C", "A">>>>,
       <<"receive_message", "A", <<"B", "C">>>>, <<"receive_message", "C", <<"A", "B">>>>,
       <<"prepare_ballot_msg", "A", {1}>>,
       <<"prepare_ballot_msg", "B", {1}>>, <<"prepare_ballot_msg", "B", {1}>>,
       <<"receive_prepare_message", "B", "A">>,
       <<"prepare_ballot_msg", "A", {1}>>, <<"prepare_ballot_msg", "A", {1}>>,
       <<"receive_prepare_message", "A", "B">>,
       <<"prepare_ballot_msg", "B", {1}>>,
       <<"receive_prepare_message", "A", "B">>, <<"receive_prepare_message", "B", "A">>,
       <<"receive_prepare_message", "C", "A">>,
       <<"prepare_ballot_msg", "A", {1, 2}>>,
       <<"prepare_ballot_msg", "C", {1, 2}>>, <<"prepare_ballot_msg", "C", {1, 2}>>,
       <<"receive_prepare_message", "C", "A">>,
       <<"prepare_ballot_msg", "A", {1, 2}>>, <<"prepare_ballot_msg", "A", {1, 2}>>,
       <<"receive_prepare_message", "A", "C">>,
       <<"prepare_ballot_msg", "C", {1, 2}>>,
       <<"receive_prepare_message", "A", "C">>, <<"receive_prepare_message", "C", "A">> >>

\* from there the driver calls the commit and externalise operations
NextCommit ==
    \/ \E n \in Net : PrepareCommit(n)
    \/ \E n \in Net : ReceiveCommit(n)
    \/ \E n \in Net : PrepareExternalize(n)
    \/ \E n \in Net : ReceiveExternalize(n)

SpecCommit ==
    /\ Starts(Run(Constructed(Nodes, <<1>>, 4 * MaxBallots), TwoValues), {NoCall})
    /\ [][NextCommit]_vars

\* ---------------------------------------- the ballot handlers on their own
\* The node of every call is A, in the FULL topology of A, B and C, and the
\* peer B broadcasts one SCPPrepare and one SCPCommit for a ballot of the
\* value {2}.  An input gives the counter of the ballot A holds under each
\* value in the voted and accepted maps of both phases (0: no ballot), the
\* counter of the ballot of B, the names the statement counters of A hold
\* for {2} (no entry: the empty list) and whether A has a prepared record
\* of {2}.
BallotInputs ==
    [op : {"input"}, voted : [{{1}, {2}, {3}} -> 0 .. 2], accepted : [{{2}, {3}} -> 0 .. 2],
     counter : 1 .. 3, entry : {<<>>} \cup {<<x>> : x \in SUBSET {"A", "B", "C"}},
     prepared : BOOLEAN]

\* the node A of an input, the heap of the ballots and the envelopes of B
BallotCase(in) ==
    LET rb == [by |-> "B", k |-> 1, value |-> {2}]
        place == ({1} :> 1) @@ ({2} :> 2) @@ ({3} :> 3)
        voted == [v \in {x \in DOMAIN in.voted : in.voted[x] > 0} |->
                     [by |-> "A", k |-> place[v], value |-> v]]
        accepted == [v \in {x \in DOMAIN in.accepted : in.accepted[x] > 0} |->
                        [by |-> "A", k |-> 3 + place[v], value |-> v]]
        held == DOMAIN voted \cup DOMAIN accepted
        names(v) == IF v = {2} /\ in.entry # <<>> THEN in.entry[1] ELSE {"A"}
        keys == held \cup (IF in.entry # <<>> THEN {{2}} ELSE {})
        record == IF in.prepared /\ {2} \in held
                  THEN {2} :> SCPPrepare(IF {2} \in DOMAIN voted THEN voted[{2}]
                                         ELSE accepted[{2}], 0, 0, 0)
                  ELSE EmptyMap
    IN [s |-> [NewNode EXCEPT
                 !.nomination_state.confirmed = <<{2}>>,
                 !.made = 6,
                 !.balloting_state.voted = voted,
                 !.balloting_state.accepted = accepted,
                 !.ballot_statement_counter =
                     [v \in keys |-> [BlankCtr EXCEPT !.voted = names(v),
                                                      !.accepted = names(v)]],
                 !.prepared_ballots = record,
                 !.commit_ballot_state.voted = voted,
                 !.commit_ballot_state.accepted = accepted,
                 !.commit_ballot_statement_counter =
                     [v \in keys |-> [BlankCtr EXCEPT !.voted = names(v)]]],
        h |-> [b \in Range(voted) \cup Range(accepted) \cup {rb} |->
                 IF b = rb THEN in.counter
                 ELSE IF b.k <= 3 THEN in.voted[b.value] ELSE in.accepted[b.value]],
        q |-> FullQuorum(Nodes)["A"],
        prepare |-> SCPPrepare(rb, 0, 0, 0),
        commit |-> SCPCommit(rb, in.counter)]

\* the call of the handler op on the input in; ov is the voted ballot the
\* v-blocking loop of receive_commit_message meets first
BallotCall(op, in, ov) ==
    LET c == BallotCase(in)
    IN CASE op = "process_prepare_ballot_message" ->
              [s |-> process_prepare_ballot_message(c.s, c.h, c.prepare, "B"), h |-> c.h,
               calls |-> <<>>]
         [] op = "receive_prepare_message" ->
              [s |-> receive_prepare_message(c.s, "A", c.q, c.h, "B", {c.prepare},
                                             <<c.prepare>>),
               h |-> c.h, calls |-> <<>>]
         [] op = "prepare_ballot_msg" ->
              [s |-> prepare_ballot_msg(c.s, "A", c.h, {2}).s,
               h |-> prepare_ballot_msg(c.s, "A", c.h, {2}).h, calls |-> <<>>]
         [] op = "receive_commit_message" ->
              Then(receive_commit_message(c.s, "A", c.q, c.h, 0, <<>>, "B", <<c.commit>>,
                                          {2}, ov),
                   LAMBDA r : [s |-> r.s, h |-> c.h, calls |-> r.calls])

Ballot(op) ==
    /\ probe.op = "input"
    /\ \E ov \in IF op = "receive_commit_message" THEN {{1}, {3}} ELSE {{1}} :
          probe' = [op |-> op, in |-> probe, ov |-> ov, out |-> BallotCall(op, probe, ov)]
    /\ UNCHANGED <<nodes, quorum_set, mempool, ballots, time, created, Gi1, max_ballots>>

NextBallotCalls ==
    \/ Ballot("process_prepare_ballot_message")
    \/ Ballot("receive_prepare_message")
    \/ Ballot("prepare_ballot_msg")
    \/ Ballot("receive_commit_message")

SpecBallotCalls == Starts(Constructed({}, <<>>, 0), BallotInputs) /\ [][NextBallotCalls]_vars

\* ------------------------------------------------------------------ claims
\* the members of the quorum set of the call, with the calling node A
ProbeMembers ==
    Range(probe.q.nodes) \cup UNION {Range(x) : x \in Range(probe.q.inner_sets)} \cup {"A"}
\* the names the counter entry of the call holds under voted or accepted
ProbeNamed ==
    IF probe.entry = <<>> THEN {} ELSE probe.entry[1].voted \cup probe.entry[1].accepted
\* the distinct members that are A itself or are named in the entry
ProbeSigners == {m \in ProbeMembers : m = "A" \/ m \in ProbeNamed}

\* C11: check_Quorum_threshold(v) at node N returns true exactly when N
\* holds v in its nomination voted or accepted list and the number of
\* distinct members of Q = validators, flattened inner sets and N that are N
\* itself or are named under voted or accepted in the counter entry of v is
\* at least minimum_quorum; with minimum_quorum = 3 it is false for 2 signers
\* and true for 3.
C11_QuorumPredicate ==
    probe.op = "check_Quorum_threshold" =>
       /\ probe.result.raises = ""
       /\ probe.result.value =
             (/\ probe.held \in {"voted", "accepted"}
              /\ Cardinality(ProbeSigners) >= QS_minimum_quorum(probe.q))
       /\ (probe.held # "none" /\ QS_minimum_quorum(probe.q) = 3) =>
             /\ Cardinality(ProbeSigners) = 2 => ~probe.result.value
             /\ Cardinality(ProbeSigners) = 3 => probe.result.value

\* a quorum set of 5 nodes at 55%, and the third signer makes the quorum
C11_Witness ==
    /\ probe.op = "check_Quorum_threshold"
    /\ Cardinality(Range(probe.q.nodes)) = 5 /\ probe.q.inner_sets = <<>>
    /\ probe.q.threshold = 55
    /\ QS_minimum_quorum(probe.q) = 3
    /\ probe.held = "voted"
    /\ Cardinality(ProbeSigners) = 3
    /\ probe.result.value


\* C12: minimum_quorum is the ceiling of size * threshold / 100, the size
\* being the number of validators plus the number of nodes in the flattened
\* inner sets.
C12_ExactCeiling ==
    probe.op = "minimum_quorum" =>
       /\ probe.size = Len(probe.q.nodes) + Len(Flatten(probe.q.inner_sets))
       /\ 100 * probe.result >= probe.size * probe.q.threshold
       /\ 100 * (probe.result - 1) < probe.size * probe.q.threshold


\* C13: in every quorum-threshold predicate a peer that occurs more than
\* once in the quorum set (as a validator, inside inner sets, or both) adds at
\* most 1 to the signed count: the predicate is true only if the distinct
\* signers reach minimum_quorum.
C13_PeerCountedOnce ==
    /\ (/\ probe.op \in {"check_Quorum_threshold", "check_Prepare_Quorum_threshold",
                         "check_Commit_Quorum_threshold"}
        /\ probe.result.value)
          => Cardinality(ProbeSigners) >= QS_minimum_quorum(probe.q)
    /\ (probe.op = "check_threshold" /\ probe.result.value)
          => Cardinality(Range(probe.q.nodes \o Flatten(probe.q.inner_sets)) \cap ProbeNamed)
                >= QS_minimum_quorum(probe.q)


\* C14: a threshold predicate (quorum or blocking; nomination, prepare or
\* commit) called with a value or ballot for which the node has no
\* statement-counter entry returns false and raises no error, also when the
\* node holds the value in its own voted list.
C14_UnknownIsFalse ==
    (probe.op # "input" /\ probe.entry = <<>>) =>
       /\ probe.result.raises = ""
       /\ ~probe.result.value


\* C15: at a node whose quorum set has no validators and no inner sets,
\* nominate() and receive_message() leave the nomination lists, the statement
\* counters and the broadcast flags of the node as they were, also when the
\* mempool holds transactions.
C15_EmptyQuorumFrame ==
    [][\A n \in Net :
          (/\ quorum_set[n].nodes = <<>> /\ quorum_set[n].inner_sets = <<>>
           /\ Nominate(n) \/ ReceiveNomination(n))
          => /\ nodes'[n].nomination_state = nodes[n].nomination_state
             /\ nodes'[n].statement_counter = nodes[n].statement_counter
             /\ nodes'[n].broadcast_flags = nodes[n].broadcast_flags]_vars


\* C16: after nominate() or receive_message() no value in the voted or the
\* accepted list has more than MAX_SLOT_TXS transactions, and where the call
\* merged values whose union has more than MAX_SLOT_TXS transactions, the
\* node holds the MAX_SLOT_TXS transactions of the union with the smallest
\* hashes as one value.
C16_MergeCapped ==
    probe.op \in {"nominate", "receive_message"} =>
       LET in == probe.in
           ns == probe.s.nomination_state
           held == Range(ns.voted) \cup Range(ns.accepted) \cup Range(ns.confirmed)
           Smallest(v, U) ==
              /\ v \subseteq U
              /\ Cardinality(v) = MAX_SLOT_TXS
              /\ \A t \in v : \A u \in U \ v : t < u
           Merged(U) ==
              Cardinality(U) > MAX_SLOT_TXS => \E v \in held : Smallest(v, U)
           new == {in.pool[i] : i \in 1 .. Min(MAX_SLOT_TXS, Len(in.pool))}
       IN /\ \A v \in Range(ns.voted) \cup Range(ns.accepted) :
                Cardinality(v) <= MAX_SLOT_TXS
          /\ (/\ probe.op = "nominate"
              /\ in.voted # <<>> /\ new # {}
              /\ new \notin Range(in.voted) \cup Range(in.accepted))
             => Merged(UNION Range(in.voted) \cup new)
          /\ (probe.op = "receive_message" /\ in.flags # <<>>)
             => /\ in.flags[1].voted # <<>>
                   => Merged(UNION Range(in.voted) \cup in.flags[1].voted[1])
                /\ in.flags[1].accepted # <<>>
                   => Merged(UNION Range(in.accepted) \cup in.flags[1].accepted[1])

\* nominate() has merged 2 .. MAX_SLOT_TXS + 1 with the first MAX_SLOT_TXS
\* transactions of the mempool, and the node votes for 1 .. MAX_SLOT_TXS
C16_Witness ==
    /\ probe.op = "nominate"
    /\ probe.in.voted = <<2 .. (MAX_SLOT_TXS + 1)>>
    /\ Len(probe.in.pool) = MAX_SLOT_TXS + 1
    /\ probe.s.nomination_state.voted = <<1 .. MAX_SLOT_TXS>>


\* C17: a node whose nomination started at time 0 is in round 1 at every
\* time up to 2 and in a round below 3 at every time before 5, whatever
\* calls of nominate and receive_message were made.
C17_RoundTiming ==
    \A n \in Net :
       nodes[n].last_nomination_start_time = 0 =>
          /\ time <= 2 => nodes[n].nomination_round = 1
          /\ time < 5 => nodes[n].nomination_round <= 2


\* C18: when receive_message() has processed a Nominate whose voted or
\* accepted value holds a transaction finalised in the ledger of the node,
\* no value in the voted or the accepted list of the node holds a
\* transaction finalised in its ledger.
C18_ReceivePrunesFinalised ==
    [][\A n \in Net :
          LET finalised == UNION {nodes[n].ledger[i].ballot.value : i \in DOMAIN nodes[n].ledger}
              pulled == UNION {Seen(nodes'[n].received_broadcast_msgs, p)
                                  \ Seen(nodes[n].received_broadcast_msgs, p) : p \in Net \ {n}}
          IN (/\ ReceiveNomination(n)
              /\ \E m \in pulled : \E v \in Range(parse_message_state(m)[1])
                                           \cup Range(parse_message_state(m)[2]) :
                    v \cap finalised # {})
             => \A v \in Range(nodes'[n].nomination_state.voted)
                         \cup Range(nodes'[n].nomination_state.accepted) :
                   v \cap finalised = {}]_vars

\* C, whose ledger holds 1 .. MAX_SLOT_TXS, has pulled A's vote for
\* {MAX_SLOT_TXS, MAX_SLOT_TXS + 1} and holds {MAX_SLOT_TXS + 1}
C18_Witness ==
    /\ nodes["C"].ledger # <<>>
    /\ nodes["C"].ledger[1].ballot.value = 1 .. MAX_SLOT_TXS
    /\ \E m \in Seen(nodes["C"].received_broadcast_msgs, "A") :
          m.voted = <<{MAX_SLOT_TXS, MAX_SLOT_TXS + 1}>>
    /\ {MAX_SLOT_TXS + 1} \in Range(nodes["C"].nomination_state.voted)
                              \cup Range(nodes["C"].nomination_state.accepted)
                              \cup Range(nodes["C"].nomination_state.confirmed)


\* C19: after nominate() no value in the voted list of the node, and no
\* voted value of the message it broadcasts, holds a transaction that the
\* node has externalised in an earlier slot.
C19_NominateSkipsExternalised ==
    [][\A n \in Net :
          Nominate(n) =>
             LET externalised == get_finalized_transaction_ids(nodes'[n])
                 flags == nodes'[n].broadcast_flags
             IN /\ \A v \in Range(nodes'[n].nomination_state.voted) :
                      v \cap externalised = {}
                /\ \A i \in DOMAIN flags : \A v \in Range(flags[i].voted) :
                      v \cap externalised = {}]_vars


\* C20: once A has pulled a Nominate of B and B has pulled a Nominate of A,
\* both hold the merged value {1, 2} in their accepted list.
C20_BothAcceptMerged ==
    (/\ Seen(nodes["A"].received_broadcast_msgs, "B") # {}
     /\ Seen(nodes["B"].received_broadcast_msgs, "A") # {})
    => /\ {1, 2} \in Range(nodes["A"].nomination_state.accepted)
       /\ {1, 2} \in Range(nodes["B"].nomination_state.accepted)


\* C20, amended: a node of A and B that has pulled from the other a Nominate
\* whose voted or accepted value is the merged value {1, 2} holds {1, 2} in
\* its accepted list, or has confirmed it; the node that pulled first has to
\* pull once more.
C20_AcceptAfterMergedVote ==
    \A n \in {"A", "B"} : \A p \in {"A", "B"} \ {n} :
       (\E m \in Seen(nodes[n].received_broadcast_msgs, p) :
           m.voted = <<{1, 2}>> \/ m.accepted = <<{1, 2}>>)
       => {1, 2} \in Range(nodes[n].nomination_state.accepted)
                     \cup Range(nodes[n].nomination_state.confirmed)

\* A and B have pulled each other's vote for {1, 2} and both hold it in
\* their accepted list
C20_Witness ==
    /\ \E m \in Seen(nodes["A"].received_broadcast_msgs, "B") : m.voted = <<{1, 2}>>
    /\ \E m \in Seen(nodes["B"].received_broadcast_msgs, "A") : m.voted = <<{1, 2}>>
    /\ {1, 2} \in Range(nodes["A"].nomination_state.accepted)
    /\ {1, 2} \in Range(nodes["B"].nomination_state.accepted)

\* C21: when process_prepare_ballot_message gets a ballot whose value is not
\* among the locally voted values and whose counter is higher than that of
\* a local voted ballot, every local voted or accepted ballot with a smaller
\* counter and a different value is moved to aborted, the received ballot is
\* installed in voted and the sender is recorded in the statement counter
\* of the received value.
C21_HigherCounterAborts ==
    (/\ probe.op = "process_prepare_ballot_message"
     /\ probe.in.voted[{2}] = 0
     /\ \E v \in DOMAIN probe.in.voted : 0 < probe.in.voted[v] /\ probe.in.voted[v] < probe.in.counter)
    => LET before == BallotCase(probe.in).s.balloting_state
           after == probe.out.s.balloting_state
       IN /\ \A v \in DOMAIN before.voted \ {{2}} :
                probe.out.h[before.voted[v]] < probe.in.counter
                => v \in DOMAIN after.aborted /\ v \notin DOMAIN after.voted
          /\ \A v \in DOMAIN before.accepted \ {{2}} :
                probe.out.h[before.accepted[v]] < probe.in.counter
                => v \in DOMAIN after.aborted /\ v \notin DOMAIN after.accepted
          /\ {2} \in DOMAIN after.voted
          /\ after.voted[{2}] = [by |-> "B", k |-> 1, value |-> {2}]
          /\ "B" \in probe.out.s.ballot_statement_counter[{2}].voted

\* A holds Ballot(1, {1}) voted and Ballot(1, {3}) accepted and has taken
\* Ballot(2, {2}) of B: {1} and {3} are aborted and {2} is voted
C21_Witness ==
    /\ probe.op = "process_prepare_ballot_message"
    /\ probe.in.voted = ({1} :> 1) @@ ({2} :> 0) @@ ({3} :> 0)
    /\ probe.in.accepted = ({2} :> 0) @@ ({3} :> 1)
    /\ probe.in.counter = 2
    /\ DOMAIN probe.out.s.balloting_state.aborted = {{1}, {3}}
    /\ DOMAIN probe.out.s.balloting_state.voted = {{2}}

\* C22: no step changes the counter of a ballot that a node holds in its
\* prepare or commit state or that a broadcast Prepare or Commit envelope
\* carries (a ballot has its value by construction).
C22_BallotsImmutable ==
    [][\A n \in Net :
          \A b \in UNION {Range(nodes[n].balloting_state[f]) : f \in DOMAIN nodes[n].balloting_state}
                   \cup UNION {Range(nodes[n].commit_ballot_state[f]) :
                                  f \in DOMAIN nodes[n].commit_ballot_state}
                   \cup {m.ballot : m \in nodes[n].ballot_prepare_broadcast_flags}
                   \cup {m.ballot : m \in nodes[n].commit_ballot_broadcast_flags} :
             ballots'[b] = ballots[b]]_vars

\* C26: after prepare_ballot_msg has selected the confirmed value {2}, which
\* is neither finalised nor aborted, the voted map holds under {2} a ballot
\* whose counter is the counter of the voted ballot before the call plus 1,
\* or 1 when there was none, with or without a prepared record of {2}.
C26_PreparedCounter ==
    probe.op = "prepare_ballot_msg"
    => /\ {2} \in DOMAIN probe.out.s.balloting_state.voted
       /\ probe.out.h[probe.out.s.balloting_state.voted[{2}]] = probe.in.voted[{2}] + 1

\* C27: process_prepare_ballot_message puts the received ballot into aborted
\* only when its value is not among the locally voted values and its counter
\* is strictly lower than the counter of every local voted ballot, and it
\* then records the sender under aborted in the statement counter.
C27_AbortedOnlyWhenLower ==
    (/\ probe.op = "process_prepare_ballot_message"
     /\ {2} \in DOMAIN probe.out.s.balloting_state.aborted)
    => /\ probe.in.voted[{2}] = 0
       /\ \A v \in DOMAIN probe.in.voted :
             probe.in.voted[v] > 0 => probe.in.counter < probe.in.voted[v]
       /\ "B" \in probe.out.s.ballot_statement_counter[{2}].aborted

\* C28: when receive_prepare_message has taken a ballot of {2} that is
\* v-blocking (the names under voted or accepted in the statement counter of
\* {2} are more than n - minimum_quorum) while A holds a voted ballot of
\* another value, every voted ballot of another value is in aborted and no
\* longer in voted after the call, and a ballot of {2} is in voted.
C28_BlockingAbortsOthers ==
    (/\ probe.op = "receive_prepare_message"
     /\ DOMAIN BallotCase(probe.in).s.balloting_state.voted \ {{2}} # {}
     /\ is_v_blocking(probe.out.s, BallotCase(probe.in).q, [value |-> {2}]))
    => /\ \A v \in DOMAIN BallotCase(probe.in).s.balloting_state.voted \ {{2}} :
             /\ v \notin DOMAIN probe.out.s.balloting_state.voted
             /\ v \in DOMAIN probe.out.s.balloting_state.aborted
       /\ {2} \in DOMAIN probe.out.s.balloting_state.voted

\* C29: when receive_commit_message has taken a ballot of {2} that is
\* commit-v-blocking (the quorum peers under voted or accepted in the commit
\* statement counter of {2} are more than n - minimum_quorum) while A holds
\* commit-voted ballots of other values, every one of those is purged from
\* the commit state, and a ballot of {2} is in commit voted with its
\* statement-counter entry in place.
C29_CommitBlockingPurgesOthers ==
    (/\ probe.op = "receive_commit_message"
     /\ DOMAIN BallotCase(probe.in).s.commit_ballot_state.voted \ {{2}} # {}
     /\ is_v_blocking_commit(probe.out.s, BallotCase(probe.in).q, [value |-> {2}]))
    => /\ \A v \in DOMAIN BallotCase(probe.in).s.commit_ballot_state.voted \ {{2}} :
             \A f \in DOMAIN probe.out.s.commit_ballot_state :
                v \notin DOMAIN probe.out.s.commit_ballot_state[f]
       /\ {2} \in DOMAIN probe.out.s.commit_ballot_state.voted
       /\ {2} \in DOMAIN probe.out.s.commit_ballot_statement_counter

\* C30 as stated: when receive_commit_message meets the commit quorum for a
\* received ballot that is in commit voted, the ballot is promoted to
\* accepted and prepare_Externalize_msg is called in the same operation;
\* when it meets it for a ballot in commit accepted, the ballot is promoted
\* to confirmed.  (With validators B and C and the commit of B taken, A and
\* B make the quorum of 2.)
C30_VotedPromotedAndExternalizeTried ==
    probe.op = "receive_commit_message"
    => IF probe.in.accepted[{2}] = 0
       THEN /\ {2} \in DOMAIN probe.out.s.commit_ballot_state.accepted
            /\ probe.out.calls # <<>>
       ELSE \/ {2} \in DOMAIN probe.out.s.commit_ballot_state.confirmed
            \/ \E i \in DOMAIN probe.out.calls :
                  {2} \in DOMAIN probe.out.calls[i].before.commit_ballot_state.confirmed

\* C30, amended: a ballot in commit voted is promoted to accepted and
\* prepare_Externalize_msg is not called; a ballot in commit accepted is
\* promoted to confirmed and prepare_Externalize_msg is called once in the
\* same operation, on the node that holds the ballot as confirmed, and puts
\* it in the ledger.
C30_ExternalizeAfterConfirmed ==
    probe.op = "receive_commit_message"
    => IF probe.in.accepted[{2}] = 0
       THEN /\ {2} \in DOMAIN probe.out.s.commit_ballot_state.accepted
            /\ probe.out.calls = <<>>
            /\ probe.out.s.ledger = <<>>
       ELSE /\ Len(probe.out.calls) = 1
            /\ {2} \in DOMAIN probe.out.calls[1].before.commit_ballot_state.confirmed
            /\ {2} \notin DOMAIN probe.out.calls[1].before.commit_ballot_state.accepted
            /\ DOMAIN probe.out.s.ledger = {1}
            /\ probe.out.s.ledger[1].ballot =
                  BallotCase(probe.in).s.commit_ballot_state.accepted[{2}]

\* A held the ballot of {2} as accepted, has confirmed it on the commit of
\* B and has externalised it in slot 1
C30_Witness ==
    /\ probe.op = "receive_commit_message"
    /\ probe.in.accepted[{2}] = 1
    /\ Len(probe.out.calls) = 1
    /\ DOMAIN probe.out.s.ledger = {1}
    /\ probe.out.s.slot = 2

\* C23: a Prepare envelope of peer p that node n has pulled and recorded in
\* its seen collection of p is not processed again by a later
\* receive_prepare_message of n: no step records it anew and hands it to
\* process_prepare_ballot_message
C23_ProcessedOnce ==
    [][\A n \in Net : \A p \in Net \ {n} :
         \A m \in Seen(Heard.nodes[n].received_prepare_broadcast_msgs, p) :
            ~ /\ m \notin Seen(nodes[n].received_prepare_broadcast_msgs, p)
              /\ m \in Seen(nodes'[n].received_prepare_broadcast_msgs, p)
              /\ ~check_if_finalised(nodes[n], ballots, m.ballot)]_vars

\* C24: whenever a node finalises a value v, the step leaves the shared mempool
\* as it was without the transactions of v, the others in their order; so a
\* second node finalising the same v, whose transactions are already absent,
\* leaves the mempool as the first one left it
C24_RemoveIdempotent ==
    [][\A n \in Net : \A k \in 1 .. 2 :
         (k \notin DOMAIN nodes[n].ledger /\ k \in DOMAIN nodes'[n].ledger) =>
            mempool' = SelectSeq(mempool,
                          LAMBDA t : t \notin nodes'[n].ledger[k].ballot.value)]_vars

\* two nodes have finalised {1}, and the mempool holds another transaction
C24_Witness ==
    /\ \E n \in Net : \E m \in Net \ {n} :
          /\ 1 \in DOMAIN nodes[n].ledger /\ nodes[n].ledger[1].ballot.value = {1}
          /\ 1 \in DOMAIN nodes[m].ledger /\ nodes[m].ledger[1].ballot.value = {1}
    /\ Len(mempool) > 0
    /\ \A i \in 1 .. Len(mempool) : mempool[i] # 1

\* C25: two nodes that both have a ledger entry for a slot hold the same
\* value in it
C25_LedgersAgree ==
    \A n \in Net : \A m \in Net :
       \A k \in DOMAIN nodes[n].ledger \cap DOMAIN nodes[m].ledger :
          nodes[n].ledger[k].ballot.value = nodes[m].ledger[k].ballot.value

\* C1: once the ledger of a node holds an Externalize record for a slot, no
\* operation replaces or changes the record of that slot
C1_LedgerRecordKept ==
    [][\A n \in Net : \A k \in DOMAIN nodes[n].ledger :
          k \in DOMAIN nodes'[n].ledger /\ nodes'[n].ledger[k] = nodes[n].ledger[k]]_vars

\* a node holds a record for slot 1 while a peer broadcasts another record
\* for slot 1
C1_Witness ==
    \E n \in Net : \E p \in Net \ {n} :
       /\ 1 \in DOMAIN nodes[n].ledger
       /\ \E pair \in nodes[p].externalize_broadcast_flags :
             pair[1] = 1 /\ pair[2] # nodes[n].ledger[1]

\* C2: after a node finalises ballot b by prepare_Externalize_msg (the record
\* it stores is not one a peer broadcast), it holds no Prepare or Commit
\* broadcast flag and no entry of balloting_state, commit_ballot_state, the
\* two statement counters or prepared_ballots whose value shares a
\* transaction with b.value
C2_NothingSharedAfterExternalize ==
    [][\A n \in Net : \A k \in 1 .. 2 :
         (/\ k \notin DOMAIN nodes[n].ledger
          /\ k \in DOMAIN nodes'[n].ledger
          /\ \A p \in Net \ {n} :
                <<k, nodes'[n].ledger[k]>> \notin nodes[p].externalize_broadcast_flags)
         => LET s == nodes'[n]
                hit(v) == v \cap s.ledger[k].ballot.value # {}
            IN /\ \A m \in s.ballot_prepare_broadcast_flags : ~hit(m.ballot.value)
               /\ \A m \in s.commit_ballot_broadcast_flags : ~hit(m.ballot.value)
               /\ \A ph \in DOMAIN s.balloting_state :
                     \A v \in DOMAIN s.balloting_state[ph] : ~hit(v)
               /\ \A ph \in DOMAIN s.commit_ballot_state :
                     \A v \in DOMAIN s.commit_ballot_state[ph] : ~hit(v)
               /\ \A v \in DOMAIN s.ballot_statement_counter : ~hit(v)
               /\ \A v \in DOMAIN s.commit_ballot_statement_counter : ~hit(v)
               /\ \A v \in DOMAIN s.prepared_ballots : ~hit(v)]_vars

C5_AbortedNeverRevived ==
    [][\A n \in DOMAIN nodes :
          \A v \in DOMAIN nodes[n].balloting_state.aborted
                   \cap DOMAIN nodes'[n].balloting_state.aborted :
             \A f \in {"voted", "accepted", "confirmed"} :
                v \in DOMAIN nodes'[n].balloting_state[f]
                => v \in DOMAIN nodes[n].balloting_state[f]]_vars

\* C31: when the node has a counter entry for v, check_Blocking_threshold(v)
\* returns true exactly when the node holds v in its nomination voted or
\* accepted list and the number of distinct quorum members that have signed
\* v, each counted once whether it is a validator or sits in an inner set, is
\* greater than n - minimum_quorum, n being the number of distinct quorum
\* members.  (The node itself may or may not be taken as a member and as a
\* signer: the result is the one of some such reading.)
C31_BlockingPredicate ==
    (probe.op = "check_Blocking_threshold" /\ probe.entry # <<>>) =>
       /\ probe.result.raises = ""
       /\ probe.result.value \in
             {(/\ probe.held \in {"voted", "accepted"}
               /\ c > n - QS_minimum_quorum(probe.q)) :
                 c \in {Cardinality(ProbeSigners \ {"A"}), Cardinality(ProbeSigners)},
                 n \in {Cardinality(QS_members(probe.q)), Cardinality(ProbeMembers)}}

\* C32: after a node has stored the record of value v in its ledger, by its
\* own prepare_Externalize_msg or by adopting a peer's record, none of its
\* statement counters (nomination, prepare, commit) holds an entry for v.
C32_CountersPurged ==
    [][\A n \in DOMAIN nodes : \A k \in DOMAIN nodes'[n].ledger \ DOMAIN nodes[n].ledger :
          LET v == nodes'[n].ledger[k].ballot.value
          IN /\ v \notin DOMAIN nodes'[n].statement_counter
             /\ v \notin DOMAIN nodes'[n].ballot_statement_counter
             /\ v \notin DOMAIN nodes'[n].commit_ballot_statement_counter]_vars

\* C33: at every node each of the nomination lists voted, accepted and
\* confirmed holds at most one Value after any nominate or receive_message
\* operation.
C33_OneValuePerList ==
    \A n \in DOMAIN nodes : \A f \in {"voted", "accepted", "confirmed"} :
       Len(nodes[n].nomination_state[f]) <= 1

\* C34: a transaction of the mempool is appended to the tx_queue of a node
\* at most once: when A has nominated from the mempool (its queue was empty,
\* so every transaction of the mempool was enqueued, and the first
\* MAX_SLOT_TXS of them were dequeued in the order of the mempool), a second
\* nominate() of A on the same mempool enqueues none of the transactions the
\* first call dequeued, so its queue holds none of them afterwards.
C34_EnqueuedOnce ==
    (probe.op = "nominate" /\ probe.in.pool # <<>>) =>
       LET w == MergeWorld(probe.in)
           taken == Min(MAX_SLOT_TXS, Len(probe.in.pool))
           dequeued == Range(SubSeq(probe.in.pool, 1, taken))
           again == nominate(probe.s, "A", Env(w, "A"))
       IN /\ probe.s.tx_queue = SubSeq(probe.in.pool, taken + 1, Len(probe.in.pool))
          /\ Range(again.tx_queue) \cap dequeued = {}

\* C35: at every node the ledger holds an entry for exactly the slots
\* 1 .. slot - 1: the slot counter starts at 1, changes only by +1, and
\* changes exactly when a record is written to the ledger at the previous
\* value of the counter.
C35_LedgerFollowsSlot ==
    /\ \A n \in DOMAIN nodes : nodes[n].slot = 1 /\ DOMAIN nodes[n].ledger = {}
    /\ [][\A n \in DOMAIN nodes :
             /\ DOMAIN nodes'[n].ledger = 1 .. (nodes'[n].slot - 1)
             /\ nodes'[n].slot \in {nodes[n].slot, nodes[n].slot + 1}
             /\ (nodes'[n].slot = nodes[n].slot + 1)
                   <=> (DOMAIN nodes'[n].ledger \ DOMAIN nodes[n].ledger = {nodes[n].slot})
             /\ (nodes'[n].slot = nodes[n].slot)
                   => (DOMAIN nodes'[n].ledger = DOMAIN nodes[n].ledger)]_vars

\* a node has externalised slot 1 by itself and a peer has adopted the
\* record it broadcasts: both are in slot 2
C35_Witness ==
    \E n \in Net : \E p \in Net \ {n} :
       /\ nodes[n].slot = 2 /\ nodes[p].slot = 2
       /\ nodes[n].peer_externalised_statements = EmptyMap
       /\ <<1, nodes[p].ledger[1]>> \in nodes[n].externalize_broadcast_flags
       /\ n \in DOMAIN nodes[p].peer_externalised_statements

\* C37: at every node the key sets of balloting_state voted, accepted,
\* confirmed and aborted are pairwise disjoint: no value is in two of the
\* four maps of the prepare phase at once.
C37_PrepareMapsDisjoint ==
    \A n \in DOMAIN nodes : \A f, g \in {"voted", "accepted", "confirmed", "aborted"} :
       f # g => DOMAIN nodes[n].balloting_state[f] \cap DOMAIN nodes[n].balloting_state[g] = {}

\* C38: when A has processed the unseen Prepare envelope of peer B for the
\* value {2} (nothing is finalised), B is named in at least one of the sets
\* voted, accepted or aborted of ballot_statement_counter[{2}], whatever the
\* counter of the received ballot, equal counters included.
C38_SenderRecorded ==
    probe.op \in {"process_prepare_ballot_message", "receive_prepare_message"}
    => /\ {2} \in DOMAIN probe.out.s.ballot_statement_counter
       /\ LET e == probe.out.s.ballot_statement_counter[{2}]
          IN "B" \in e.voted \cup e.accepted \cup e.aborted

\* C39: a receive operation of node n (receive_message,
\* receive_prepare_message, receive_commit_message, receive_Externalize_msg)
\* changes no field of another node: its broadcast flags, its phase state
\* and its counters are as before.
C39_ReceiveIsLocal ==
    [][\A n \in Net :
          (\/ ReceiveNomination(n) \/ ReceivePrepare(n)
           \/ ReceiveCommit(n) \/ ReceiveExternalize(n))
          => \A p \in Net \ {n} : nodes'[p] = nodes[p]]_vars

\* C40: for every quorum set with at least one member, minimum_quorum is at
\* most the number of distinct nodes the quorum predicates can count (the
\* validators, the nodes of the flattened inner sets and the owning node A),
\* so a value that A holds and that every member has signed meets the
\* nomination and the commit quorum threshold.
C40_QuorumReachable ==
    (/\ probe.op \in {"check_Quorum_threshold", "check_Commit_Quorum_threshold"}
     /\ QS_members(probe.q) # {})
    => /\ QS_minimum_quorum(probe.q) <= Cardinality(ProbeMembers)
       /\ (probe.held # "none" /\ ProbeSigners = ProbeMembers) => probe.result.value

\* C6: when prepare_Externalize_msg has run at node n in slot s with a
\* confirmed commit ballot (n stores a record for s that no peer broadcast:
\* receive_commit_message has confirmed the ballot, which n held as commit
\* accepted or confirmed, and has called prepare_Externalize_msg), the
\* record's ballot is that ballot and its hCounter the ballot's counter, the
\* record is in the ledger at s, in externalized_slot_counter and in the
\* externalize broadcast flags under s; the nomination lists are empty,
\* nomination_round = 1, the priority list is empty and slot = s + 1.
C6_ExternalizeEffects ==
    [][\A n \in Net : \A k \in DOMAIN nodes'[n].ledger \ DOMAIN nodes[n].ledger :
         (\A p \in Net \ {n} :
             <<k, nodes'[n].ledger[k]>> \notin nodes[p].externalize_broadcast_flags)
         => LET s == nodes'[n]
                rec == s.ledger[k]
            IN /\ k = nodes[n].slot
               /\ rec.ballot \in Range(nodes[n].commit_ballot_state.accepted)
                                 \cup Range(nodes[n].commit_ballot_state.confirmed)
               /\ rec.hCounter = ballots[rec.ballot]
               /\ rec \in s.externalized_slot_counter
               /\ <<k, rec>> \in s.externalize_broadcast_flags
               /\ s.nomination_state = [voted |-> <<>>, accepted |-> <<>>, confirmed |-> <<>>]
               /\ s.nomination_round = 1
               /\ s.priority_list = {}
               /\ s.slot = k + 1]_vars

\* a node that held nomination values and a priority list has externalised
\* slot 1 by itself: no peer broadcasts the record it stores
C6_Witness ==
    \E n \in Net :
       /\ 1 \in DOMAIN nodes[n].ledger
       /\ nodes[n].peer_externalised_statements = EmptyMap
       /\ <<1, nodes[n].ledger[1]>> \in nodes[n].externalize_broadcast_flags
       /\ \A p \in Net \ {n} :
             <<1, nodes[n].ledger[1]>> \notin nodes[p].externalize_broadcast_flags
       /\ nodes[n].nomination_state.confirmed = <<>>
       /\ nodes[n].slot = 2

\* C7: when receive_Externalize_msg adopts a peer's record for the node's
\* current slot s (the ledger gains s and the record is noted for the peer),
\* the node ends as after a local prepare_Externalize_msg of that ballot:
\* ledger[s] is the record, the nomination lists are empty, the prepare and
\* commit state hold nothing of the ballot's value, nomination_round = 1,
\* the priority list is empty, last_nomination_start_time is the time of the
\* call and slot = s + 1.
C7_AdoptionEqualsLocal ==
    [][\A n \in Net : \A k \in DOMAIN nodes'[n].ledger \ DOMAIN nodes[n].ledger :
         (nodes'[n].peer_externalised_statements # nodes[n].peer_externalised_statements)
         => LET s == nodes'[n]
                v == s.ledger[k].ballot.value
            IN /\ k = nodes[n].slot
               /\ s.nomination_state = [voted |-> <<>>, accepted |-> <<>>, confirmed |-> <<>>]
               /\ \A f \in {"voted", "accepted", "confirmed", "aborted"} :
                     v \notin DOMAIN s.balloting_state[f]
               /\ \A f \in {"voted", "accepted", "confirmed"} :
                     v \notin DOMAIN s.commit_ballot_state[f]
               /\ s.nomination_round = 1
               /\ s.priority_list = {}
               /\ s.last_nomination_start_time = time
               /\ s.slot = k + 1]_vars

\* C8: when receive_Externalize_msg pulls a (slot, record) pair whose slot is
\* already in the node's ledger or is not the node's current slot, the pair
\* is discarded: apart from the note in peer_externalised_statements that the
\* pair was pulled, every field of the node (ledger, slot, nomination,
\* prepare and commit state, externalized_slot_counter, externalize
\* broadcast flags) is unchanged, and so are the mempool and the ballots.
C8_DiscardedPairChangesNothing ==
    [][\A n \in Net : \A p \in DOMAIN nodes'[n].peer_externalised_statements :
         \A pair \in nodes'[n].peer_externalised_statements[p]
                     \ Get(nodes[n].peer_externalised_statements, p, {}) :
            (pair[1] \in DOMAIN nodes[n].ledger \/ pair[1] # nodes[n].slot)
            => /\ nodes'[n] = [nodes[n] EXCEPT !.peer_externalised_statements =
                                                   nodes'[n].peer_externalised_statements]
               /\ mempool' = mempool
               /\ ballots' = ballots]_vars

\* a node at slot 2 has pulled a record of slot 1 that is not the one in its ledger
C8_Witness ==
    \E n \in Net : \E p \in DOMAIN nodes[n].peer_externalised_statements :
       \E pair \in nodes[n].peer_externalised_statements[p] :
          /\ pair[1] = 1
          /\ nodes[n].slot = 2
          /\ nodes[n].ledger[1] # pair[2]

\* ------------------------------------------------------ a node left behind
\* the run of Heard goes on: C externalises {1} in slot 1 and B learns it from
\* C, while A stays in slot 1 with its SCPCommit for {1}. Clients add
\* transactions 2 and 3; B and C confirm the nomination of {2}, prepare
\* ballots for it, and B broadcasts an SCPCommit for {2}. From there the
\* driver calls the commit and externalise operations
SpecBehind ==
    /\ Starts(Run(Heard,
                  SubSeq(FirstSlot({1}), 16, 19)
                  \o << <<"receive_Externalize_msg", "B", "C", 1>>, <<"add_tx">>,
                        <<"nominate", "B">>, <<"nominate", "C">>,
                        <<"receive_message", "C", <<"A", "B">>>>,
                        <<"receive_message", "B", <<"A", "C">>>>,
                        <<"receive_message", "C", <<"A", "B">>>>,
                        <<"receive_message", "B", <<"A", "C">>>>,
                        <<"add_tx">>, <<"nominate", "B">>, <<"nominate", "C">>,
                        <<"receive_message", "C", <<"A", "B">>>>,
                        <<"receive_message", "B", <<"A", "C">>>>,
                        <<"prepare_ballot_msg", "B", {2}>>,
                        <<"prepare_ballot_msg", "C", {2}>>, <<"prepare_ballot_msg", "C", {2}>>,
                        <<"receive_prepare_message", "C", "B">>,
                        <<"prepare_ballot_msg", "B", {2}>>, <<"prepare_ballot_msg", "B", {2}>>,
                        <<"receive_prepare_message", "B", "C">>,
                        <<"prepare_ballot_msg", "C", {2}>>,
                        <<"receive_prepare_message", "B", "C">>,
                        <<"prepare_SCPCommit_msg", "B", {2}>> >>),
              {NoCall})
    /\ [][NextCommit]_vars

\* C36: within one node's ledger no transaction is finalised twice: the
\* values externalised at two different slots of a node are disjoint,
\* whether the node externalised them itself or adopted them from a peer.
C36_NoTransactionTwice ==
    \A n \in DOMAIN nodes : \A j, k \in DOMAIN nodes[n].ledger :
       j # k => nodes[n].ledger[j].ballot.value \cap nodes[n].ledger[k].ballot.value = {}

\* C9: for every node and every slot s, externalized_slot_counter holds at
\* most one record for s: the records of the counter are exactly the ledger's
\* entries, one per closed slot, and the node's externalize broadcast flags
\* pair each closed slot with that one record.
C9_OneRecordPerSlot ==
    \A n \in DOMAIN nodes :
       LET s == nodes[n]
       IN /\ s.externalized_slot_counter = {s.ledger[k] : k \in DOMAIN s.ledger}
          /\ Cardinality(s.externalized_slot_counter) <= s.slot - 1
          /\ \A k \in 1 .. s.slot :
                Cardinality({r \in s.externalized_slot_counter :
                                <<k, r>> \in s.externalize_broadcast_flags}) <= 1
          /\ \A pair \in s.externalize_broadcast_flags :
                pair[1] \in DOMAIN s.ledger /\ s.ledger[pair[1]] = pair[2]

\* a node has closed slot 1 by itself and slot 2 by adopting a peer's record,
\* and has been offered, and has discarded, another record of slot 1
C9_Witness ==
    \E n \in Net : \E p \in DOMAIN nodes[n].peer_externalised_statements :
       \E pair \in nodes[n].peer_externalised_statements[p] :
          /\ DOMAIN nodes[n].ledger = {1, 2}
          /\ pair[1] = 1
          /\ nodes[n].ledger[1] # pair[2]
          /\ <<2, nodes[n].ledger[2]>> \in nodes[n].peer_externalised_statements[p]

\* ------------------------------------------------- a fair driver, slot 1
\* the five transactions of the shared mempool
FiveTxs == <<1, 2, 3, 4, 5>>

\* three nodes in a FULL topology have confirmed the nomination of the five
\* transactions; A has prepared its ballot and B and C have each pulled A's
\* SCPPrepare before preparing a ballot themselves
Stalled ==
    Run(Constructed(Nodes, FiveTxs, MaxBallots + 2),
        SubSeq(FirstSlot({}), 1, 7)
        \o << <<"prepare_ballot_msg", "A", Range(FiveTxs)>>,
              <<"receive_prepare_message", "B", "A">>,
              <<"receive_prepare_message", "C", "A">> >>)

\* a call of nominate would change the state
CanNominate == \E n \in Net : call_nominate(World, n) # World

\* a call of receive_message would change the state
CanReceiveNomination ==
    \E n \in Net : \E order \in PriorityOrders(World, n) :
       call_receive_message(World, n, order) # World

\* a call of receive_prepare_message would change the state
CanReceivePrepare ==
    \E n \in Net : \E peer \in QS_peers(quorum_set[n], n) :
       \E order \in Perms(UnseenPrepare(World, n, peer)) :
          call_receive_prepare_message(World, n, peer, order) # World

\* the driver keeps invoking every operation of the nodes: an operation that
\* stays able to change the state is eventually taken. The weak fairness of
\* nominate, receive_message and receive_prepare_message is written out by its
\* definition ([]<>~enabled \/ []<>taken), the enabling condition being the
\* comparison of the call's result with the state.
SpecFair ==
    /\ Starts(Stalled, {NoCall})
    /\ [][NodeStep]_vars
    /\ ([]<>(~CanNominate) \/ []<><<\E n \in Net : Nominate(n)>>_vars)
    /\ ([]<>(~CanReceiveNomination) \/ []<><<\E n \in Net : ReceiveNomination(n)>>_vars)
    /\ WF_vars(\E n \in Net : PrepareBallot(n))
    /\ ([]<>(~CanReceivePrepare) \/ []<><<\E n \in Net : ReceivePrepare(n)>>_vars)
    /\ WF_vars(\E n \in Net : PrepareCommit(n))
    /\ WF_vars(\E n \in Net : ReceiveCommit(n))
    /\ WF_vars(\E n \in Net : PrepareExternalize(n))
    /\ WF_vars(\E n \in Net : ReceiveExternalize(n))

\* C10: in a FULL topology of three nodes with five transactions in the shared
\* mempool, under a fair driver every node eventually has a ledger entry for
\* slot 1 whose value has exactly the five transactions
C10_EveryNodeExternalisesAll ==
    <>(\A n \in DOMAIN nodes :
          /\ 1 \in DOMAIN nodes[n].ledger
          /\ nodes[n].ledger[1].ballot.value = Range(FiveTxs))

====
